---- MODULE Spec2Model ----
(***************************************************************************)
(* A model of the scheduling engines of @jneander/utils-async:             *)
(*   ControlledLoopSync  (src/src/loops/controlled-loop-sync.ts 60-162)    *)
(*   ControlledLoopAsync (src/src/loops/controlled-loop-sync.ts 176-240)   *)
(*   TimerSync           (src/src/loops/timer-sync.ts 65-214)              *)
(*                                                                         *)
(* JavaScript runs every task to completion on one thread.  A call made    *)
(* by user code from inside a callback (loopFn, onTick, onError) therefore *)
(* nests inside the engine's own activation.  Each engine keeps a stack of *)
(* its activations; only the top of the stack takes steps, and the event   *)
(* loop (a timer firing, a promise continuation, a call from outside)      *)
(* takes a step only when the stack is empty.                              *)
(*                                                                         *)
(* The engines share no state (spec section 2), so a behaviour exercises   *)
(* one engine instance, chosen by `engine` in the initial state.           *)
(***************************************************************************)
EXTENDS Integers, Sequences, FiniteSets

\* ------------------------------------------------------------------ bounds
MaxBudget == 3      \* largest configured maxBlockingTimeMs
MaxCost == 2        \* largest clock advance of one loopFn call, in ms
MaxDepth == 2       \* deepest nesting of engine activations
MaxCalls == 4       \* cap of the loopFn call counter
MaxPending == 3     \* cap of resumptions pending in the scheduler
MaxChains == 3      \* cap of the start() calls that drive an async loop
MaxTime == 4        \* last instant of the clock, in ms
MaxRuns == 2        \* cap of TimerSync._runId
MaxTimers == 2      \* cap of the timer's callbacks pending in the scheduler

VARIABLES
  engine,            \* the engine instance under exercise
  syncRunning,       \* ControlledLoopSync._isRunning
  syncBudget,        \* ControlledLoopSync.config.maxBlockingTimeMs
  syncOnError,       \* TRUE iff ControlledLoopSync.config.onError is given
  syncStack,         \* activations of the closure `loop`, innermost last
  syncPending,       \* resumption callbacks pending in requestAnimationFrame
  syncStale,         \* those of syncPending scheduled before a stop() call
  syncCalls,         \* number of loopFn invocations so far
  syncStaleRan,      \* a resumption scheduled before a stop() started a cycle
  syncInertFired,    \* a resumption fired as a no-op since the last start
  syncThrown,        \* loopFn threw and start() has not taken effect since
  syncFailed,        \* as syncThrown, but a start() made by onError is not counted
  syncErrSawRunning, \* onError has been entered with isRunning = TRUE
  asyncRunning,      \* ControlledLoopAsync._isRunning
  asyncOnError,      \* TRUE iff ControlledLoopAsync.config.onError is given
  asyncChains,       \* per start() call that entered the loop: where it is
  asyncStack,        \* user callbacks executing, innermost last
  asyncCalls,        \* number of loopFn invocations so far
  asyncThrown,       \* an iteration failed and start() has not taken effect since
  asyncErrSawRunning,\* onError has been entered with isRunning = TRUE
  now,               \* performance.now(), the current frame time
  timerHasRaf,       \* TRUE iff globals.requestAnimationFrame is given
  timerOnError,      \* TRUE iff TimerSync.onError is given
  timerInterval,     \* TimerSync._tickIntervalMs
  timerRunId,        \* TimerSync._runId
  timerStartTime,    \* TimerSync._startTime, Null or <<instant>>
  timerCurStart,     \* TimerSync._currentIntervalStartTime, Null or <<instant>>
  timerTimeoutId,    \* TimerSync._currentIntervalTimeoutId, Null or <<id>>
  timerPending,      \* the timer's callbacks pending in setTimeout / rAF
  timerStack,        \* the user callback executing (onTick, onError), if any
  timerTicks,        \* number of onTick invocations since the last start
  timerOnTime,       \* no tick of this run was late or overran, interval unchanged
  timerStaleActed,   \* a callback of an earlier run has scheduled since the last start
  timerInertFired,   \* a callback fired as a no-op since the last start
  timerThrown,       \* onTick threw and start() has not taken effect since
  syncFailures,      \* loopFn invocations that threw since the last start
  syncErrCalls,      \* onError invocations since the last start
  timerFailures,     \* onTick invocations that threw since the last start
  timerErrCalls,     \* onError invocations since the last start
  asyncFailures,     \* number of loopFn invocations that threw or rejected
  asyncErrCalls,     \* number of onError invocations so far
  asyncReason,       \* per chain: the value its awaited promise rejected with, or NoReason
  asyncResult,       \* per chain: the value the promise of start() rejected with, or NoReason
  asyncThrew,        \* per chain: the value onError threw, or NoReason
  asyncNoop,         \* a start() call found the loop running, and it has run on since
  syncOutcome,       \* what became of the last throw of onError since start() took effect
  timerOutcome,      \* what became of the last throw of onError since start() took effect
  syncCosts,          \* the costs a loopFn call can have, in ms: one value if uniform
  syncNoop,          \* a start() call found the loop running, and it has run on since
  clockNow,          \* the clock of setTimeout / setInterval, in ms since the call
  waitIntervalMs,    \* waitForCondition: config.intervalMs
  waitTimeoutMs,     \* waitForCondition: config.timeoutMs
  waitPromise,       \* waitForCondition: the promise it returned
  waitIntervalDue,   \* waitForCondition: Null, or <<instant the interval fires next>>
  waitTimeoutDue,    \* waitForCondition: Null, or <<instant the timeout fires>>
  waitCalls,         \* number of conditionFn invocations so far
  waitFlight,        \* conditionFn invocations whose promise is not settled yet
  waitLast,          \* what the last conditionFn invocation to finish yielded
  waitOnlyFalsy,     \* every conditionFn invocation that finished yielded a falsy value
  delayDuration,     \* delayMs: the argument delayMs
  delayPromise,      \* delayMs: the promise it returned
  delayTimeoutDue,   \* delayMs: Null, or <<instant its timeout fires>>
  ctorConfigured,    \* new ControlledLoopSync(config): config.maxBlockingTimeMs
  ctorHeld,          \* Null, or <<this.config.maxBlockingTimeMs of the new loop>>
  legacyTimer,       \* Timer: its globals, _tickRateMs, _isRunning, _runId, _startTime
  legacyPending,     \* Timer: its callbacks pending in setTimeout / rAF
  legacyTicks        \* Timer: number of onTick invocations so far

syncVars == <<syncRunning, syncBudget, syncOnError, syncStack, syncPending,
              syncStale, syncCalls, syncStaleRan, syncInertFired, syncThrown,
              syncFailed, syncErrSawRunning, syncFailures, syncErrCalls,
              syncOutcome, syncCosts,
  syncNoop>>

asyncVars == <<asyncRunning, asyncOnError, asyncChains, asyncStack,
               asyncCalls, asyncThrown, asyncErrSawRunning, asyncFailures,
               asyncErrCalls, asyncReason, asyncResult, asyncThrew, asyncNoop>>

timerVars == <<now, timerHasRaf, timerOnError, timerInterval, timerRunId,
               timerStartTime, timerCurStart, timerTimeoutId, timerPending,
               timerStack, timerTicks, timerOnTime, timerStaleActed,
               timerInertFired, timerThrown, timerFailures, timerErrCalls,
               timerOutcome>>

waitVars == <<waitIntervalMs, waitTimeoutMs, waitPromise, waitIntervalDue,
              waitTimeoutDue, waitCalls, waitFlight, waitLast, waitOnlyFalsy>>

delayVars == <<delayDuration, delayPromise, delayTimeoutDue>>

delaysVars == <<clockNow, waitVars, delayVars>>

ctorVars == <<ctorConfigured, ctorHeld>>

legacyVars == <<legacyTimer, legacyPending, legacyTicks>>

vars == <<engine, syncVars, asyncVars, timerVars, delaysVars, ctorVars,
         legacyVars>>

Engines == {"sync", "async", "timer"}

Min(a, b) == IF a < b THEN a ELSE b

Max(a, b) == IF a > b THEN a ELSE b

\* JavaScript's null.
Null == <<>>

\* Values a user callback throws, or its promise rejects with.
Reasons == {"e1", "e2"}

\* The place of a reason where there is none.
NoReason == "none"

\* ------------------------------------------------- ControlledLoopSync

\* Values safeDelayMs can give maxBlockingTimeMs (Math.round of a value >= 0).
Budgets == 0..MaxBudget

\* Clock advance of one loopFn call.
Costs == 0..MaxCost

\* What a loopFn can cost: the same for every call, or any cost at each call.
CostModels == {{c} : c \in Costs} \cup {Costs}

\* Beyond this the outcome of haveTimeForAnotherLoop no longer changes.
DiffCap == MaxBudget + MaxCost + 1

\* A projection made one iteration back, not forward:
\* difference - difference / iterations < maxBlockingTimeMs.
haveTimeLookingBack(difference, iterations, maxBlockingTimeMs) ==
  difference * iterations - difference < maxBlockingTimeMs * iterations

\* The budget compared with the time elapsed only, with no projection:
\* difference < maxBlockingTimeMs.
haveTimeNoProjection(difference, iterations, maxBlockingTimeMs) ==
  difference < maxBlockingTimeMs

\* difference + difference / iterations < maxBlockingTimeMs, iterations > 0,
\* with the division cleared.  `difference` is performance.now() - startTime.
haveTimeForAnotherLoop(difference, iterations, maxBlockingTimeMs) ==
  difference * iterations + difference < maxBlockingTimeMs * iterations

\* A fresh activation of `loop`: startTime is now, iterations is 0.
SyncNewFrame == [pc |-> "while", difference |-> 0, iterations |-> 0]

SyncTop == syncStack[Len(syncStack)]

\* The activation f inside the call onError(arg) of line 129, made for the
\* value `reason` caught at line 125.
SyncOnErrorFrame(f, reason, arg) ==
  [pc |-> "onError", difference |-> f.difference, iterations |-> f.iterations,
   reason |-> reason, arg |-> arg]

SyncPop(stk) == SubSeq(stk, 1, Len(stk) - 1)

\* The clock advances by d: every activation's difference grows by d.
SyncAddTime(stk, d) ==
  [i \in 1..Len(stk) |-> [stk[i] EXCEPT !.difference = Min(@ + d, DiffCap)]]

\* User code runs at the top of the stack, or the event loop is idle.
SyncInUserCode ==
  \/ syncStack = <<>>
  \/ (syncStack # <<>> /\ SyncTop.pc \in {"loopFn", "onError"})

\* start() without the check of lines 113-115: a call on a running loop
\* begins another cycle.
SyncStartUnguarded ==
  /\ engine = "sync"
  /\ SyncInUserCode
  /\ Len(syncStack) < MaxDepth
  /\ syncNoop' = syncRunning
  /\ syncRunning' = TRUE
  /\ syncStack' = Append(syncStack, SyncNewFrame)
  /\ syncThrown' = FALSE
  /\ syncFailed' = IF syncStack # <<>> /\ SyncTop.pc = "onError"
                     THEN syncFailed ELSE FALSE
  /\ syncInertFired' = FALSE
  /\ syncOutcome' = "none"
  /\ syncFailures' = 0
  /\ syncErrCalls' = 0
  /\ UNCHANGED <<syncBudget, syncOnError, syncCosts, syncPending, syncStale,
                 syncCalls, syncStaleRan, syncErrSawRunning>>
  /\ UNCHANGED <<engine, ctorVars, legacyVars, delaysVars, asyncVars, timerVars>>

\* start(), lines 112-146, up to the call of loop().
SyncStart ==
  /\ engine = "sync"
  /\ SyncInUserCode
  /\ IF syncRunning
       THEN /\ syncNoop' = TRUE
            /\ UNCHANGED <<syncRunning, syncBudget, syncOnError, syncCosts,
                           syncStack, syncPending, syncStale, syncCalls,
                           syncStaleRan, syncInertFired, syncThrown,
                           syncFailed, syncErrSawRunning, syncFailures,
                           syncErrCalls, syncOutcome>>
       ELSE /\ Len(syncStack) < MaxDepth
            /\ syncRunning' = TRUE
            /\ syncStack' = Append(syncStack, SyncNewFrame)
            /\ syncThrown' = FALSE
            /\ syncFailed' = IF syncStack # <<>> /\ SyncTop.pc = "onError"
                               THEN syncFailed ELSE FALSE
            /\ syncInertFired' = FALSE
            /\ syncOutcome' = "none"
            /\ syncNoop' = FALSE
            /\ syncFailures' = 0
            /\ syncErrCalls' = 0
            /\ UNCHANGED <<syncBudget, syncOnError, syncCosts, syncPending,
                           syncStale, syncCalls, syncStaleRan,
                           syncErrSawRunning>>
  /\ UNCHANGED <<engine, ctorVars, legacyVars, delaysVars, asyncVars, timerVars>>

\* stop(), lines 151-153.
SyncStop ==
  /\ engine = "sync"
  /\ SyncInUserCode
  /\ syncRunning' = FALSE
  /\ syncStale' = syncPending
  /\ syncNoop' = FALSE
  /\ UNCHANGED <<engine, ctorVars, legacyVars, delaysVars, asyncVars, timerVars, syncCosts, syncOutcome,
                 syncErrCalls, syncFailures, syncBudget, syncOnError,
                 syncStack, syncPending, syncCalls, syncStaleRan,
                 syncInertFired, syncThrown, syncFailed, syncErrSawRunning>>

\* The head of `while (this.isRunning)`, line 122, and the call of loopFn,
\* line 124.
SyncWhile ==
  /\ engine = "sync"
  /\ syncStack # <<>>
  /\ SyncTop.pc = "while"
  /\ IF syncRunning
       THEN /\ syncCalls < MaxCalls
            /\ syncCalls' = syncCalls + 1
            /\ \E c \in syncCosts :
                 syncStack' = SyncAddTime(
                   [syncStack EXCEPT ![Len(syncStack)].pc = "loopFn"], c)
       ELSE /\ syncStack' = SyncPop(syncStack)
            /\ UNCHANGED syncCalls
  /\ UNCHANGED <<engine, ctorVars, legacyVars, delaysVars, asyncVars, timerVars, syncNoop, syncCosts, syncOutcome,
                 syncErrCalls, syncFailures, syncRunning, syncBudget,
                 syncOnError, syncPending, syncStale, syncStaleRan,
                 syncInertFired, syncThrown, syncFailed, syncErrSawRunning>>

\* Lines 135-140 without the break of line 139: the cycle schedules a
\* resumption and goes on.
SyncAfterIterationNoBreak(pending) ==
  LET f == SyncTop
      n == f.iterations + 1
  IN /\ syncStack' = [syncStack EXCEPT ![Len(syncStack)] =
                        [pc |-> "while", difference |-> f.difference,
                         iterations |-> n]]
     /\ IF haveTimeForAnotherLoop(f.difference, n, syncBudget)
          THEN syncPending' = pending
          ELSE /\ pending < MaxPending
               /\ syncPending' = pending + 1

\* Lines 135-140: iterations++, the budget check, delay(loop) and break.
\* `pending` is the number of resumptions pending before this step.
SyncAfterIteration(pending) ==
  LET f == SyncTop
      n == f.iterations + 1
  IN IF haveTimeForAnotherLoop(f.difference, n, syncBudget)
       THEN /\ syncStack' = [syncStack EXCEPT ![Len(syncStack)] =
                               [pc |-> "while", difference |-> f.difference,
                                iterations |-> n]]
            /\ syncPending' = pending
       ELSE /\ pending < MaxPending
            /\ syncPending' = pending + 1
            /\ syncStack' = SyncPop(syncStack)

\* The number of loopFn calls a cycle makes before it yields, when every call
\* costs c >= 1 ms and nothing stops the loop: lines 120-141 from the n-th
\* call on, with difference = n * c after it.
RECURSIVE CycleFrom(_, _, _)
CycleFrom(n, maxBlockingTimeMs, c) ==
  IF haveTimeForAnotherLoop(n * c, n, maxBlockingTimeMs)
    THEN CycleFrom(n + 1, maxBlockingTimeMs, c)
    ELSE n

\* loopFn returns, in a loop that marks itself stopped when it yields at
\* line 138.
SyncLoopFnReturnPauses ==
  /\ engine = "sync"
  /\ syncStack # <<>>
  /\ SyncTop.pc = "loopFn"
  /\ SyncAfterIteration(syncPending)
  /\ syncRunning' = (syncRunning /\ syncPending' = syncPending)
  /\ UNCHANGED <<engine, ctorVars, legacyVars, delaysVars, asyncVars, timerVars, syncNoop, syncCosts,
                 syncOutcome, syncErrCalls, syncFailures, syncBudget,
                 syncOnError, syncStale, syncCalls, syncStaleRan,
                 syncInertFired, syncThrown, syncFailed, syncErrSawRunning>>

\* loopFn returns normally.
SyncLoopFnReturn ==
  /\ engine = "sync"
  /\ syncStack # <<>>
  /\ SyncTop.pc = "loopFn"
  /\ SyncAfterIteration(syncPending)
  /\ UNCHANGED <<engine, ctorVars, legacyVars, delaysVars, asyncVars, timerVars, syncNoop, syncCosts, syncOutcome,
                 syncErrCalls, syncFailures, syncRunning, syncBudget,
                 syncOnError, syncStale, syncCalls, syncStaleRan,
                 syncInertFired, syncThrown, syncFailed, syncErrSawRunning>>

\* The catch of lines 125-133 without its call of stop(): the loop is still
\* running when onError is entered and when the cycle goes on.
SyncLoopFnThrowNoStop ==
  /\ engine = "sync"
  /\ syncStack # <<>>
  /\ SyncTop.pc = "loopFn"
  /\ syncThrown' = TRUE
  /\ syncFailed' = TRUE
  /\ syncFailures' = syncFailures + 1
  /\ IF syncOnError
       THEN /\ \E error \in Reasons :
                 syncStack' = [syncStack EXCEPT ![Len(syncStack)] =
                                 SyncOnErrorFrame(SyncTop, error, error)]
            /\ syncErrCalls' = syncErrCalls + 1
            /\ syncErrSawRunning' = (syncErrSawRunning \/ syncRunning)
            /\ UNCHANGED syncPending
       ELSE /\ SyncAfterIteration(syncPending)
            /\ UNCHANGED <<syncErrSawRunning, syncErrCalls>>
  /\ syncNoop' = FALSE
  /\ UNCHANGED <<engine, ctorVars, legacyVars, delaysVars, asyncVars, timerVars, syncCosts, syncOutcome,
                 syncRunning, syncStale, syncBudget, syncOnError, syncCalls,
                 syncStaleRan, syncInertFired>>

\* loopFn throws `error`: the catch of lines 125-133 calls stop(), then
\* onError(error).
SyncLoopFnThrow ==
  /\ engine = "sync"
  /\ syncStack # <<>>
  /\ SyncTop.pc = "loopFn"
  /\ syncRunning' = FALSE
  /\ syncStale' = syncPending
  /\ syncThrown' = TRUE
  /\ syncFailed' = TRUE
  /\ syncFailures' = syncFailures + 1
  /\ IF syncOnError
       THEN /\ \E error \in Reasons :
                 syncStack' = [syncStack EXCEPT ![Len(syncStack)] =
                                 SyncOnErrorFrame(SyncTop, error, error)]
            /\ syncErrCalls' = syncErrCalls + 1
            /\ syncErrSawRunning' = (syncErrSawRunning \/ syncRunning')
            /\ UNCHANGED syncPending
       ELSE /\ SyncAfterIteration(syncPending)
            /\ UNCHANGED <<syncErrSawRunning, syncErrCalls>>
  /\ syncNoop' = FALSE
  /\ UNCHANGED <<engine, ctorVars, legacyVars, delaysVars, asyncVars, timerVars, syncCosts, syncOutcome,
                 syncBudget, syncOnError, syncCalls, syncStaleRan,
                 syncInertFired>>

\* onError returns.
SyncOnErrorReturn ==
  /\ engine = "sync"
  /\ syncStack # <<>>
  /\ SyncTop.pc = "onError"
  /\ SyncAfterIteration(syncPending)
  /\ UNCHANGED <<engine, ctorVars, legacyVars, delaysVars, asyncVars, timerVars, syncNoop, syncCosts, syncOutcome,
                 syncErrCalls, syncFailures, syncRunning, syncBudget,
                 syncOnError, syncStale, syncCalls, syncStaleRan,
                 syncInertFired, syncThrown, syncFailed, syncErrSawRunning>>

\* onError throws past line 129 with no try around it: the exception leaves
\* the closure `loop`, and the rest of the cycle is not run.
SyncOnErrorThrowUnguarded ==
  /\ engine = "sync"
  /\ syncStack # <<>>
  /\ SyncTop.pc = "onError"
  /\ syncOutcome' = "escaped"
  /\ syncStack' = SyncPop(syncStack)
  /\ UNCHANGED <<engine, ctorVars, legacyVars, delaysVars, asyncVars, timerVars, syncNoop, syncCosts, syncErrCalls,
                 syncFailures, syncRunning, syncBudget, syncOnError, syncStale,
                 syncPending, syncCalls, syncStaleRan, syncInertFired,
                 syncThrown, syncFailed, syncErrSawRunning>>

\* onError throws: caught and discarded, lines 128-132; the cycle goes on
\* at line 135.
SyncOnErrorThrow ==
  /\ engine = "sync"
  /\ syncStack # <<>>
  /\ SyncTop.pc = "onError"
  /\ syncOutcome' = "discarded"
  /\ SyncAfterIteration(syncPending)
  /\ UNCHANGED <<engine, ctorVars, legacyVars, delaysVars, asyncVars, timerVars, syncNoop, syncCosts, syncErrCalls,
                 syncFailures, syncRunning, syncBudget, syncOnError, syncStale,
                 syncCalls, syncStaleRan, syncInertFired, syncThrown,
                 syncFailed, syncErrSawRunning>>

\* A resumption scheduled by delay(), lines 155-161, fires.
SyncResume ==
  /\ engine = "sync"
  /\ syncStack = <<>>
  /\ syncPending > 0
  /\ \E stale \in BOOLEAN :
       /\ IF stale THEN syncStale > 0 ELSE syncPending > syncStale
       /\ syncPending' = syncPending - 1
       /\ syncStale' = IF stale THEN syncStale - 1 ELSE syncStale
       /\ IF syncRunning
            THEN /\ syncStack' = <<SyncNewFrame>>
                 /\ syncStaleRan' = (syncStaleRan \/ stale)
                 /\ UNCHANGED syncInertFired
            ELSE /\ syncInertFired' = TRUE
                 /\ UNCHANGED <<syncStack, syncStaleRan>>
  /\ UNCHANGED <<engine, ctorVars, legacyVars, delaysVars, asyncVars, timerVars, syncNoop, syncCosts, syncOutcome,
                 syncErrCalls, syncFailures, syncRunning, syncBudget,
                 syncOnError, syncCalls, syncThrown, syncFailed,
                 syncErrSawRunning>>

SyncInit ==
  /\ syncNoop = FALSE
  /\ syncOutcome = "none"
  /\ syncErrCalls = 0
  /\ syncFailures = 0
  /\ syncRunning = FALSE
  /\ syncStack = <<>>
  /\ syncPending = 0
  /\ syncStale = 0
  /\ syncCalls = 0
  /\ syncStaleRan = FALSE
  /\ syncInertFired = FALSE
  /\ syncThrown = FALSE
  /\ syncFailed = FALSE
  /\ syncErrSawRunning = FALSE
  /\ IF engine = "sync"
       THEN /\ syncBudget \in Budgets
            /\ syncOnError \in BOOLEAN
            /\ syncCosts \in CostModels
       ELSE /\ syncBudget = 0
            /\ syncOnError = FALSE
            /\ syncCosts = {0}

\* start() called from outside loopFn and onError.
SyncStartOutside == syncStack = <<>> /\ SyncStart

\* The loop when start() is never called from inside a callback: the cycles
\* of an instance do not nest.
SyncNextOutside ==
  \/ SyncStartOutside
  \/ SyncStop
  \/ SyncWhile
  \/ SyncLoopFnReturn
  \/ SyncLoopFnThrow
  \/ SyncOnErrorReturn
  \/ SyncOnErrorThrow
  \/ SyncResume

SyncNext ==
  \/ SyncStart
  \/ SyncStop
  \/ SyncWhile
  \/ SyncLoopFnReturn
  \/ SyncLoopFnThrow
  \/ SyncOnErrorReturn
  \/ SyncOnErrorThrow
  \/ SyncResume

\* ------------------------------------------------ ControlledLoopAsync

(* A chain is one execution of the async function start() that entered the *)
(* loop.  It is                                                            *)
(*   "sync"      running synchronously (a callback of it is on the stack), *)
(*   "await"     suspended at `await this.config.loopFn()`, promise        *)
(*               unsettled,                                                *)
(*   "ok"/"err"  that promise fulfilled/rejected, continuation queued,     *)
(*   "fulfilled"/"rejected"  ended: the promise start() returned settled.  *)
AsyncTop == asyncStack[Len(asyncStack)]

AsyncPop(stk) == SubSeq(stk, 1, Len(stk) - 1)

\* start() without the check of lines 218-220: a call on a running loop
\* calls loopFn and drives the loop as well.
AsyncStartUnguarded ==
  /\ engine = "async"
  /\ Len(asyncChains) < MaxChains
  /\ Len(asyncStack) < MaxDepth
  /\ asyncCalls < MaxCalls
  /\ asyncNoop' = asyncRunning
  /\ asyncRunning' = TRUE
  /\ asyncChains' = Append(asyncChains, "sync")
  /\ asyncReason' = Append(asyncReason, NoReason)
  /\ asyncResult' = Append(asyncResult, NoReason)
  /\ asyncThrew' = Append(asyncThrew, NoReason)
  /\ asyncStack' = Append(asyncStack,
       [pc |-> "loopFn", chain |-> Len(asyncChains) + 1])
  /\ asyncCalls' = asyncCalls + 1
  /\ asyncThrown' = FALSE
  /\ UNCHANGED <<asyncOnError, asyncErrSawRunning, asyncFailures,
                 asyncErrCalls>>
  /\ UNCHANGED <<engine, ctorVars, legacyVars, delaysVars, syncVars, timerVars>>

\* start(), lines 217-226, up to the first call of loopFn.  On a running
\* loop the async function returns at line 219: its promise is fulfilled.
AsyncStart ==
  /\ engine = "async"
  /\ IF asyncRunning
       THEN /\ asyncNoop' = TRUE
            /\ UNCHANGED <<asyncRunning, asyncOnError, asyncChains,
                           asyncStack, asyncCalls, asyncThrown,
                           asyncErrSawRunning, asyncReason, asyncResult,
                           asyncThrew, asyncFailures, asyncErrCalls>>
       ELSE /\ Len(asyncChains) < MaxChains
            /\ Len(asyncStack) < MaxDepth
            /\ asyncCalls < MaxCalls
            /\ asyncRunning' = TRUE
            /\ asyncChains' = Append(asyncChains, "sync")
            /\ asyncReason' = Append(asyncReason, NoReason)
            /\ asyncResult' = Append(asyncResult, NoReason)
            /\ asyncThrew' = Append(asyncThrew, NoReason)
            /\ asyncStack' = Append(asyncStack,
                 [pc |-> "loopFn", chain |-> Len(asyncChains) + 1])
            /\ asyncCalls' = asyncCalls + 1
            /\ asyncThrown' = FALSE
            /\ asyncNoop' = FALSE
            /\ UNCHANGED <<asyncOnError, asyncErrSawRunning, asyncFailures,
                           asyncErrCalls>>
  /\ UNCHANGED <<engine, ctorVars, legacyVars, delaysVars, syncVars, timerVars>>

\* stop(), lines 237-239.
AsyncStop ==
  /\ engine = "async"
  /\ asyncRunning' = FALSE
  /\ asyncNoop' = FALSE
  /\ UNCHANGED <<engine, ctorVars, legacyVars, delaysVars, syncVars, timerVars, asyncThrew, asyncResult,
                 asyncReason, asyncErrCalls, asyncFailures, asyncOnError,
                 asyncChains, asyncStack, asyncCalls, asyncThrown,
                 asyncErrSawRunning>>

\* loopFn returns its promise (or a value): the chain suspends at the await
\* of line 226 and control returns to the caller of start().
AsyncLoopFnReturn ==
  /\ engine = "async"
  /\ asyncStack # <<>>
  /\ AsyncTop.pc = "loopFn"
  /\ asyncChains' = [asyncChains EXCEPT ![AsyncTop.chain] = "await"]
  /\ asyncStack' = AsyncPop(asyncStack)
  /\ UNCHANGED <<engine, ctorVars, legacyVars, delaysVars, syncVars, timerVars, asyncNoop, asyncThrew,
                 asyncResult, asyncReason, asyncErrCalls, asyncFailures,
                 asyncRunning, asyncOnError, asyncCalls, asyncThrown,
                 asyncErrSawRunning>>

\* The call onError(arg) of line 229 in chain c, made for the value `reason`
\* caught at line 227.
AsyncOnErrorFrame(c, reason, arg) ==
  [pc |-> "onError", chain |-> c, reason |-> reason, arg |-> arg]

\* The catch of lines 227-230 without its call of stop(): the loop is still
\* running when onError is entered, and the loop condition lets it go on.
AsyncCatchNoStop(c, stk, error) ==
  /\ asyncRunning' = asyncRunning
  /\ asyncNoop' = asyncNoop
  /\ asyncThrown' = TRUE
  /\ asyncFailures' = asyncFailures + 1
  /\ IF asyncOnError
       THEN /\ asyncStack' = Append(stk, AsyncOnErrorFrame(c, error, error))
            /\ asyncChains' = [asyncChains EXCEPT ![c] = "sync"]
            /\ asyncErrCalls' = asyncErrCalls + 1
            /\ asyncErrSawRunning' = (asyncErrSawRunning \/ asyncRunning)
       ELSE /\ asyncStack' = stk
            /\ asyncChains' = [asyncChains EXCEPT ![c] = "ok"]
            /\ UNCHANGED <<asyncErrSawRunning, asyncErrCalls>>

\* The catch of lines 227-230 for chain c and the value `error` caught:
\* stop(), then onError(error) if given; without onError the loop condition
\* of line 224 is read at once, and the async function returns.
\* `stk` is the stack without any frame of this catch.
AsyncCatch(c, stk, error) ==
  /\ asyncRunning' = FALSE
  /\ asyncNoop' = FALSE
  /\ asyncThrown' = TRUE
  /\ asyncFailures' = asyncFailures + 1
  /\ IF asyncOnError
       THEN /\ asyncStack' = Append(stk, AsyncOnErrorFrame(c, error, error))
            /\ asyncChains' = [asyncChains EXCEPT ![c] = "sync"]
            /\ asyncErrCalls' = asyncErrCalls + 1
            /\ asyncErrSawRunning' = (asyncErrSawRunning \/ asyncRunning')
       ELSE /\ asyncStack' = stk
            /\ asyncChains' = [asyncChains EXCEPT ![c] = "fulfilled"]
            /\ UNCHANGED <<asyncErrSawRunning, asyncErrCalls>>

\* loopFn throws `error` synchronously.
AsyncLoopFnThrow ==
  /\ engine = "async"
  /\ asyncStack # <<>>
  /\ AsyncTop.pc = "loopFn"
  /\ \E error \in Reasons :
       AsyncCatch(AsyncTop.chain, AsyncPop(asyncStack), error)
  /\ UNCHANGED <<engine, ctorVars, legacyVars, delaysVars, syncVars, timerVars, asyncOnError, asyncCalls,
                 asyncReason, asyncResult, asyncThrew>>

\* An `if` in the place of the `while` of line 224: the async function
\* returns after one iteration, whatever isRunning is.
AsyncWhileOnce(c, stk) ==
  /\ asyncStack' = stk
  /\ asyncChains' = [asyncChains EXCEPT ![c] = "fulfilled"]
  /\ UNCHANGED asyncCalls

\* A `while (true)` in the place of line 224: the chain calls loopFn again
\* whatever isRunning is.
AsyncWhileForever(c, stk) ==
  /\ asyncCalls < MaxCalls
  /\ asyncCalls' = asyncCalls + 1
  /\ asyncStack' = Append(stk, [pc |-> "loopFn", chain |-> c])
  /\ asyncChains' = [asyncChains EXCEPT ![c] = "sync"]

\* The loop condition of line 224 for chain c, read after an iteration:
\* call loopFn again, or let the promise of start() fulfil.
AsyncWhile(c, stk) ==
  IF asyncRunning
    THEN /\ asyncCalls < MaxCalls
         /\ asyncCalls' = asyncCalls + 1
         /\ asyncStack' = Append(stk, [pc |-> "loopFn", chain |-> c])
         /\ asyncChains' = [asyncChains EXCEPT ![c] = "sync"]
    ELSE /\ asyncStack' = stk
         /\ asyncChains' = [asyncChains EXCEPT ![c] = "fulfilled"]
         /\ UNCHANGED asyncCalls

\* onError returns: back to the loop condition.
AsyncOnErrorReturn ==
  /\ engine = "async"
  /\ asyncStack # <<>>
  /\ AsyncTop.pc = "onError"
  /\ AsyncWhile(AsyncTop.chain, AsyncPop(asyncStack))
  /\ UNCHANGED <<engine, ctorVars, legacyVars, delaysVars, syncVars, timerVars, asyncNoop, asyncThrew,
                 asyncResult, asyncReason, asyncErrCalls, asyncFailures,
                 asyncRunning, asyncOnError, asyncThrown, asyncErrSawRunning>>

\* onError throws `error` inside a try whose catch discards it, as in the
\* synchronous loop: the chain goes back to the loop condition.
AsyncOnErrorThrowGuarded ==
  /\ engine = "async"
  /\ asyncStack # <<>>
  /\ AsyncTop.pc = "onError"
  /\ \E error \in Reasons :
       asyncThrew' = [asyncThrew EXCEPT ![AsyncTop.chain] = error]
  /\ AsyncWhile(AsyncTop.chain, AsyncPop(asyncStack))
  /\ UNCHANGED <<engine, ctorVars, legacyVars, delaysVars, syncVars, timerVars, asyncNoop, asyncReason,
                 asyncResult, asyncErrCalls, asyncFailures, asyncRunning,
                 asyncOnError, asyncThrown, asyncErrSawRunning>>

\* onError throws `error`: nothing guards line 229, so the async function
\* throws and the promise of start() rejects with it.
AsyncOnErrorThrow ==
  /\ engine = "async"
  /\ asyncStack # <<>>
  /\ AsyncTop.pc = "onError"
  /\ \E error \in Reasons :
       /\ asyncThrew' = [asyncThrew EXCEPT ![AsyncTop.chain] = error]
       /\ asyncResult' = [asyncResult EXCEPT ![AsyncTop.chain] = error]
  /\ asyncChains' = [asyncChains EXCEPT ![AsyncTop.chain] = "rejected"]
  /\ asyncStack' = AsyncPop(asyncStack)
  /\ UNCHANGED <<engine, ctorVars, legacyVars, delaysVars, syncVars, timerVars, asyncNoop, asyncReason,
                 asyncErrCalls, asyncFailures, asyncRunning, asyncOnError,
                 asyncCalls, asyncThrown, asyncErrSawRunning>>

\* The promise loopFn returned settles: it fulfils, or rejects with `error`.
AsyncSettle ==
  /\ engine = "async"
  /\ asyncStack = <<>>
  /\ \E c \in 1..Len(asyncChains) :
       /\ asyncChains[c] = "await"
       /\ \/ /\ asyncChains' = [asyncChains EXCEPT ![c] = "ok"]
             /\ UNCHANGED asyncReason
          \/ \E error \in Reasons :
               /\ asyncChains' = [asyncChains EXCEPT ![c] = "err"]
               /\ asyncReason' = [asyncReason EXCEPT ![c] = error]
  /\ UNCHANGED <<engine, ctorVars, legacyVars, delaysVars, syncVars, timerVars, asyncNoop, asyncThrew,
                 asyncResult, asyncErrCalls, asyncFailures, asyncRunning,
                 asyncOnError, asyncStack, asyncCalls, asyncThrown,
                 asyncErrSawRunning>>

\* The continuation of a fulfilled await runs: back to the loop condition.
AsyncContinueOk ==
  /\ engine = "async"
  /\ asyncStack = <<>>
  /\ \E c \in 1..Len(asyncChains) :
       /\ asyncChains[c] = "ok"
       /\ AsyncWhile(c, asyncStack)
  /\ UNCHANGED <<engine, ctorVars, legacyVars, delaysVars, syncVars, timerVars, asyncNoop, asyncThrew,
                 asyncResult, asyncReason, asyncErrCalls, asyncFailures,
                 asyncRunning, asyncOnError, asyncThrown, asyncErrSawRunning>>

\* The continuation of a rejected await runs: the catch, with the value the
\* promise rejected with.
AsyncContinueErr ==
  /\ engine = "async"
  /\ asyncStack = <<>>
  /\ \E c \in 1..Len(asyncChains) :
       /\ asyncChains[c] = "err"
       /\ AsyncCatch(c, asyncStack, asyncReason[c])
       /\ asyncReason' = [asyncReason EXCEPT ![c] = NoReason]
  /\ UNCHANGED <<engine, ctorVars, legacyVars, delaysVars, syncVars, timerVars, asyncOnError, asyncCalls,
                 asyncResult, asyncThrew>>

AsyncInit ==
  /\ asyncNoop = FALSE
  /\ asyncThrew = <<>>
  /\ asyncResult = <<>>
  /\ asyncReason = <<>>
  /\ asyncErrCalls = 0
  /\ asyncFailures = 0
  /\ asyncRunning = FALSE
  /\ asyncChains = <<>>
  /\ asyncStack = <<>>
  /\ asyncCalls = 0
  /\ asyncThrown = FALSE
  /\ asyncErrSawRunning = FALSE
  /\ IF engine = "async" THEN asyncOnError \in BOOLEAN ELSE asyncOnError = FALSE

AsyncNext ==
  \/ AsyncStart
  \/ AsyncStop
  \/ AsyncLoopFnReturn
  \/ AsyncLoopFnThrow
  \/ AsyncOnErrorReturn
  \/ AsyncOnErrorThrow
  \/ AsyncSettle
  \/ AsyncContinueOk
  \/ AsyncContinueErr

\* ----------------------------------------------------------- TimerSync

\* A nullable number as arithmetic reads it: null counts as 0.
Num(x) == IF x = Null THEN 0 ELSE x[1]

\* Values of targetTickIntervalMs exercised: an even and an odd one, in ms.
Intervals == {2, 3}

\* Math.round(e / t) for t > 0: the nearest integer, halves upwards.
MathRound(e, t) == (2 * e + t) \div (2 * t)

\* isRunning, lines 111-113.
TimerIsRunning == timerStartTime # Null

\* targetNext with Math.floor in the place of Math.round.
TargetNextFloored(intervalStartTimeMs, tickIntervalMs) ==
  LET elapsedMs == intervalStartTimeMs - Num(timerCurStart)
      roundedElapsedMs == (elapsedMs \div tickIntervalMs) * tickIntervalMs
  IN Num(timerCurStart) + roundedElapsedMs + tickIntervalMs

\* targetNext of scheduleTick, line 180-182.
TargetNext(intervalStartTimeMs, tickIntervalMs) ==
  LET elapsedMs == intervalStartTimeMs - Num(timerCurStart)
      roundedElapsedMs == MathRound(elapsedMs, tickIntervalMs) * tickIntervalMs
  IN Num(timerCurStart) + roundedElapsedMs + tickIntervalMs

\* The handle setTimeout returns: one no pending callback of `pend` bears.
FreshId(pend) ==
  CHOOSE i \in 1..(Cardinality(pend) + 1) : \A p \in pend : p.id # i

\* scheduleTick(intervalStartTimeMs), lines 179-195, with the interval
\* tickIntervalMs and the run id runId in force, `pend` the callbacks pending,
\* and k the ordinal of the tick within its run.  The timeout is set for
\* now + delay, with the delay of line 183: that instant is `due`.
ScheduleTick(intervalStartTimeMs, tickIntervalMs, runId, pend, k) ==
  LET targetNext == TargetNext(intervalStartTimeMs, tickIntervalMs)
      id == FreshId(pend)
  IN /\ Cardinality(pend) < MaxTimers
     /\ timerCurStart' = <<targetNext - tickIntervalMs>>
     /\ timerTimeoutId' = <<id>>
     /\ timerPending' = pend \cup
          {[id |-> id, runId |-> runId, phase |-> "timeout",
            start |-> targetNext - tickIntervalMs, target |-> targetNext,
            due |-> now + Max(0, targetNext - now), k |-> k]}

\* Callbacks of runs that are over: processTick compares their run id with
\* a _runId that is larger for good (line 198), so all that is kept of them
\* is the handle, the phase and the instant they are due; run id 0 stands
\* for any earlier run.
Forget(pend) ==
  {[p EXCEPT !.k = 0, !.start = 0, !.target = 0, !.runId = 0] : p \in pend}

\* start() without the check of lines 162-164: a call on a running timer
\* opens a run as well.
TimerStartUnguarded ==
  /\ engine = "timer"
  /\ timerRunId < MaxRuns
  /\ timerRunId' = timerRunId + 1
  /\ timerStartTime' = <<now>>
  /\ timerOnTime' = TRUE
  /\ timerInertFired' = FALSE
  /\ timerThrown' = FALSE
  /\ ScheduleTick(now, timerInterval, timerRunId + 1,
                  Forget(timerPending), 1)
  /\ timerOutcome' = "none"
  /\ timerStaleActed' = FALSE
  /\ timerFailures' = 0
  /\ timerErrCalls' = 0
  /\ timerTicks' = 0
  /\ UNCHANGED <<now, timerHasRaf, timerOnError, timerInterval, timerStack>>
  /\ UNCHANGED <<engine, ctorVars, legacyVars, delaysVars, syncVars, asyncVars>>

\* start(), lines 161-169.
TimerStart ==
  /\ engine = "timer"
  /\ IF TimerIsRunning
       THEN UNCHANGED timerVars
       ELSE /\ timerRunId < MaxRuns
            /\ timerRunId' = timerRunId + 1
            /\ timerStartTime' = <<now>>
            /\ timerOnTime' = TRUE
            /\ timerInertFired' = FALSE
            /\ timerThrown' = FALSE
            /\ ScheduleTick(now, timerInterval, timerRunId + 1,
                            Forget(timerPending), 1)
            /\ timerOutcome' = "none"
            /\ timerStaleActed' = FALSE
            /\ timerFailures' = 0
            /\ timerErrCalls' = 0
            /\ timerTicks' = 0
            /\ UNCHANGED <<now, timerHasRaf, timerOnError, timerInterval,
                           timerStack>>
  /\ UNCHANGED <<engine, ctorVars, legacyVars, delaysVars, syncVars, asyncVars>>

\* stop(), lines 175-177.
TimerStop ==
  /\ engine = "timer"
  /\ timerStartTime' = Null
  /\ UNCHANGED <<engine, ctorVars, legacyVars, delaysVars, syncVars, asyncVars, timerOutcome, timerErrCalls,
                 timerFailures, timerThrown, now, timerHasRaf, timerOnError,
                 timerInterval, timerRunId, timerCurStart, timerTimeoutId,
                 timerPending, timerStack, timerTicks, timerOnTime,
                 timerStaleActed, timerInertFired>>

\* clearTimeout(id): a timeout still pending is removed; one that has fired
\* (its frame callback pending, or gone) is not affected.
ClearTimeout(pend, id) ==
  {p \in pend : ~(p.id = id /\ p.phase = "timeout")}

\* The ordinal, within its run, of the tick the pending callback `id` is for.
TickOrdinal(id) == (CHOOSE p \in timerPending : p.id = id).k

\* setTargetTickIntervalMs(tickIntervalMs), lines 146-154.
TimerSetTargetTickIntervalMs ==
  /\ engine = "timer"
  /\ \E tickIntervalMs \in Intervals :
       /\ timerInterval' = tickIntervalMs
       /\ timerOnTime' = (timerOnTime /\ tickIntervalMs = timerInterval)
       /\ IF ~TimerIsRunning \/ timerTimeoutId = Null
            THEN UNCHANGED <<timerCurStart, timerTimeoutId, timerPending>>
            ELSE ScheduleTick(Num(timerCurStart), tickIntervalMs, timerRunId,
                              ClearTimeout(timerPending, timerTimeoutId[1]),
                              TickOrdinal(timerTimeoutId[1]))
  /\ UNCHANGED <<engine, ctorVars, legacyVars, delaysVars, syncVars, asyncVars, timerOutcome, timerErrCalls,
                 timerFailures, timerThrown, now, timerHasRaf, timerOnError,
                 timerRunId, timerStartTime, timerStack, timerTicks,
                 timerStaleActed, timerInertFired>>

\* Time passes: between tasks, or inside a callback that blocks the thread.
TimerClock ==
  /\ engine = "timer"
  /\ now < MaxTime
  /\ now' = now + 1
  /\ UNCHANGED <<engine, ctorVars, legacyVars, delaysVars, syncVars, asyncVars, timerOutcome, timerErrCalls,
                 timerFailures, timerThrown, timerHasRaf, timerOnError,
                 timerInterval, timerRunId, timerStartTime, timerCurStart,
                 timerTimeoutId, timerPending, timerStack, timerTicks,
                 timerOnTime, timerStaleActed, timerInertFired>>

\* The frame callback with a processTick that compares the run ids only and
\* does not read isRunning.
TimerFrameCallbackIgnoresRunning(p) ==
  /\ timerPending' = timerPending \ {p}
  /\ timerCurStart' = Null
  /\ timerTimeoutId' = Null
  /\ IF p.runId # timerRunId
       THEN /\ timerInertFired' = TRUE
            /\ UNCHANGED <<timerStack, timerTicks, timerOnTime>>
       ELSE /\ timerTicks' = timerTicks + 1
            /\ UNCHANGED timerInertFired
            /\ timerStack' = <<[pc |-> "onTick", time |-> now,
                                runId |-> p.runId, k |-> p.k,
                                target |-> p.target]>>
            /\ timerOnTime' = (timerOnTime /\ 2 * (now - p.target) < timerInterval)

\* The frame callback of lines 189-193 for the pending callback p, and
\* processTick(rafTime, currentRunId), lines 197-203, up to the call of onTick.
TimerFrameCallback(p) ==
  /\ timerPending' = timerPending \ {p}
  /\ timerCurStart' = Null
  /\ timerTimeoutId' = Null
  /\ IF ~TimerIsRunning \/ p.runId # timerRunId
       THEN /\ timerInertFired' = TRUE
            /\ UNCHANGED <<timerStack, timerTicks, timerOnTime>>
       ELSE /\ timerTicks' = timerTicks + 1
            /\ UNCHANGED timerInertFired
            /\ timerStack' = <<[pc |-> "onTick", time |-> now,
                                runId |-> p.runId, k |-> p.k,
                                target |-> p.target]>>
            /\ timerOnTime' = (timerOnTime /\ 2 * (now - p.target) < timerInterval)

\* The host runs timeouts in the order they come due, and those due together
\* in the order they were set: p waits for every timeout of an earlier run
\* that is due no later.
TimerInOrder(p) ==
  \A q \in timerPending :
    ~(q.phase = "timeout" /\ q.runId < p.runId /\ q.due <= p.due)

\* A timeout set by scheduleTick elapses, line 188: the frame callback is
\* requested; the substitute of lines 24-28 calls it at once.
TimerTimeoutFires ==
  /\ engine = "timer"
  /\ timerStack = <<>>
  /\ \E p \in timerPending :
       /\ p.phase = "timeout"
       /\ p.due <= now
       /\ TimerInOrder(p)
       /\ IF timerHasRaf
            THEN /\ timerPending' = (timerPending \ {p}) \cup
                                      {[p EXCEPT !.phase = "raf"]}
                 /\ UNCHANGED <<timerCurStart, timerTimeoutId, timerStack,
                                timerTicks, timerOnTime, timerInertFired>>
            ELSE TimerFrameCallback(p)
  /\ UNCHANGED <<engine, ctorVars, legacyVars, delaysVars, syncVars, asyncVars, timerOutcome, timerErrCalls,
                 timerFailures, timerThrown, now, timerHasRaf, timerOnError,
                 timerInterval, timerRunId, timerStartTime, timerStaleActed>>

\* A frame callback requested through requestAnimationFrame runs.
TimerFrameFires ==
  /\ engine = "timer"
  /\ timerStack = <<>>
  /\ \E p \in timerPending :
       /\ p.phase = "raf"
       /\ TimerFrameCallback(p)
  /\ UNCHANGED <<engine, ctorVars, legacyVars, delaysVars, syncVars, asyncVars, timerOutcome, timerErrCalls,
                 timerFailures, timerThrown, now, timerHasRaf, timerOnError,
                 timerInterval, timerRunId, timerStartTime, timerStaleActed>>

\* onTick returns, with a catch-up in the place of line 204: when the next
\* target instant has passed already, onTick is called again at once for it
\* and no callback is scheduled.
TimerOnTickReturnCatchUp ==
  /\ engine = "timer"
  /\ timerStack # <<>>
  /\ timerStack[1].pc = "onTick"
  /\ LET f == timerStack[1]
         targetNext == TargetNext(f.time, timerInterval)
     IN /\ IF targetNext <= now
              THEN /\ timerTicks' = timerTicks + 1
                   /\ timerStack' = <<[pc |-> "onTick", time |-> now,
                                       runId |-> f.runId, k |-> f.k + 1,
                                       target |-> targetNext]>>
                   /\ UNCHANGED <<timerCurStart, timerTimeoutId,
                                  timerPending>>
              ELSE /\ ScheduleTick(f.time, timerInterval, timerRunId,
                                   timerPending, f.k + 1)
                   /\ timerStack' = <<>>
                   /\ UNCHANGED timerTicks
        /\ timerStaleActed' =
             (timerStaleActed \/ f.runId # timerRunId)
        /\ timerOnTime' = (timerOnTime /\ now < f.target + timerInterval)
  /\ UNCHANGED <<engine, ctorVars, legacyVars, delaysVars, syncVars, asyncVars, timerOutcome, timerErrCalls,
                 timerFailures, timerThrown, now, timerHasRaf, timerOnError,
                 timerInterval, timerRunId, timerStartTime, timerInertFired>>

\* onTick returns: scheduleTick(currentTimeMs), line 204.
TimerOnTickReturn ==
  /\ engine = "timer"
  /\ timerStack # <<>>
  /\ timerStack[1].pc = "onTick"
  /\ LET f == timerStack[1]
     IN /\ ScheduleTick(f.time, timerInterval, timerRunId, timerPending,
                        f.k + 1)
        /\ timerStaleActed' =
             (timerStaleActed \/ f.runId # timerRunId)
        /\ timerOnTime' = (timerOnTime /\ now < f.target + timerInterval)
  /\ timerStack' = <<>>
  /\ UNCHANGED <<engine, ctorVars, legacyVars, delaysVars, syncVars, asyncVars, timerOutcome, timerErrCalls,
                 timerFailures, timerThrown, now, timerHasRaf, timerOnError,
                 timerInterval, timerRunId, timerStartTime, timerTicks,
                 timerInertFired>>

\* A call onError(wrapped) in the place of line 208: the handler is given a
\* value made from the one caught, not the value itself.
TimerOnErrorFrameWrapped(reason, arg) ==
  [pc |-> "onError", reason |-> reason, arg |-> <<"wrapped", arg>>]

\* The call onError(arg) of line 208, made for the value `reason` caught at
\* line 205.
TimerOnErrorFrame(reason, arg) ==
  [pc |-> "onError", reason |-> reason, arg |-> arg]

\* onTick throws `error`: the catch of lines 205-212 calls stop(), then
\* onError(error).
TimerOnTickThrow ==
  /\ engine = "timer"
  /\ timerStack # <<>>
  /\ timerStack[1].pc = "onTick"
  /\ timerStartTime' = Null
  /\ timerThrown' = TRUE
  /\ timerFailures' = timerFailures + 1
  /\ IF timerOnError
       THEN /\ \E error \in Reasons :
                 timerStack' = <<TimerOnErrorFrame(error, error)>>
            /\ timerErrCalls' = timerErrCalls + 1
       ELSE /\ timerStack' = <<>>
            /\ UNCHANGED timerErrCalls
  /\ UNCHANGED <<engine, ctorVars, legacyVars, delaysVars, syncVars, asyncVars, timerOutcome, now, timerHasRaf,
                 timerOnError, timerInterval, timerRunId, timerCurStart,
                 timerTimeoutId, timerPending, timerTicks, timerOnTime,
                 timerStaleActed, timerInertFired>>

\* onError returns.
TimerOnErrorReturn ==
  /\ engine = "timer"
  /\ timerStack # <<>>
  /\ timerStack[1].pc = "onError"
  /\ timerStack' = <<>>
  /\ UNCHANGED <<engine, ctorVars, legacyVars, delaysVars, syncVars, asyncVars, timerOutcome, timerErrCalls,
                 timerFailures, timerThrown, now, timerHasRaf, timerOnError,
                 timerInterval, timerRunId, timerStartTime, timerCurStart,
                 timerTimeoutId, timerPending, timerTicks, timerOnTime,
                 timerStaleActed, timerInertFired>>

\* onError throws: caught and discarded, lines 207-211.
TimerOnErrorThrow ==
  /\ engine = "timer"
  /\ timerStack # <<>>
  /\ timerStack[1].pc = "onError"
  /\ timerOutcome' = "discarded"
  /\ timerStack' = <<>>
  /\ UNCHANGED <<engine, ctorVars, legacyVars, delaysVars, syncVars, asyncVars, timerErrCalls, timerFailures,
                 timerThrown, now, timerHasRaf, timerOnError, timerInterval,
                 timerRunId, timerStartTime, timerCurStart, timerTimeoutId,
                 timerPending, timerTicks, timerOnTime, timerStaleActed,
                 timerInertFired>>

TimerInit ==
  /\ timerOutcome = "none"
  /\ timerErrCalls = 0
  /\ timerFailures = 0
  /\ timerThrown = FALSE
  /\ timerRunId = 0
  /\ timerStartTime = Null
  /\ timerCurStart = Null
  /\ timerTimeoutId = Null
  /\ timerPending = {}
  /\ timerStack = <<>>
  /\ timerTicks = 0
  /\ timerOnTime = TRUE
  /\ timerStaleActed = FALSE
  /\ timerInertFired = FALSE
  /\ now = 0
  /\ IF engine = "timer"
       THEN /\ timerInterval \in Intervals
            /\ timerHasRaf \in BOOLEAN
            /\ timerOnError \in BOOLEAN
       ELSE /\ timerInterval = 2
            /\ timerHasRaf = FALSE
            /\ timerOnError = FALSE

TimerNext ==
  \/ TimerStart
  \/ TimerStop
  \/ TimerSetTargetTickIntervalMs
  \/ TimerClock
  \/ TimerTimeoutFires
  \/ TimerFrameFires
  \/ TimerOnTickReturn
  \/ TimerOnTickThrow
  \/ TimerOnErrorReturn
  \/ TimerOnErrorThrow

\* ------------------------------------------------ utils/helpers (durations)

(* A duration argument is a JavaScript value: undefined, NaN, an infinity, *)
(* or a finite number, kept as the integer q for q/4 ms, which leaves room *)
(* for fractions on both sides of a half.                                  *)
Value(kind) == [kind |-> kind, q |-> 0]

Finite(q) == [kind |-> "finite", q |-> q]

\* The finite number of n whole milliseconds.
Ms(n) == Finite(4 * n)

isUnsafeNumber(value) ==
  \/ value.kind \in {"undefined", "null"}
  \/ (value.kind = "-Infinity" \/ (value.kind = "finite" /\ value.q < 0))
  \/ value.kind # "finite"

\* The error ensureSafeDelayMs throws.
InvalidDuration == "Delay duration must be a positive, finite number."

\* ensureSafeDelayMs cutting the fraction off instead of rounding.
ensureSafeDelayMsTruncating(ms) ==
  IF isUnsafeNumber(ms)
    THEN [threw |-> TRUE, value |-> 0]
    ELSE [threw |-> FALSE, value |-> ms.q \div 4]

\* ensureSafeDelayMs either throws or returns the rounded duration.
ensureSafeDelayMs(ms) ==
  IF isUnsafeNumber(ms)
    THEN [threw |-> TRUE, value |-> 0]
    ELSE [threw |-> FALSE, value |-> MathRound(ms.q, 4)]

\* safeDelayMs: the duration rounded to whole ms, or defaultValue.
safeDelayMs(ms, defaultValue) ==
  IF isUnsafeNumber(ms) THEN defaultValue ELSE MathRound(ms.q, 4)

\* ------------------------------------- ControlledLoopSync (constructor)

DEFAULT_MAX_BLOCKING_TIME_MS == 15

\* The values of config.maxBlockingTimeMs: every kind of value that is not
\* a finite number, and the finite numbers from -1 ms to one past the
\* default, in steps of a quarter.
CtorConfigured ==
  {Value(k) : k \in {"undefined", "null", "NaN", "Infinity", "-Infinity"}}
    \cup {Finite(q) : q \in (-4)..(4 * (DEFAULT_MAX_BLOCKING_TIME_MS + 1))}

\* new ControlledLoopSync(config): the budget the loop holds.
SyncConstructor ==
  /\ engine = "constructor"
  /\ ctorHeld = Null
  /\ ctorHeld' = <<safeDelayMs(ctorConfigured, DEFAULT_MAX_BLOCKING_TIME_MS)>>
  /\ UNCHANGED <<engine, syncVars, asyncVars, timerVars, delaysVars, legacyVars,
                 ctorConfigured>>

CtorInit ==
  /\ ctorHeld = Null
  /\ IF engine = "constructor"
       THEN ctorConfigured \in CtorConfigured
       ELSE ctorConfigured = Value("undefined")

\* ------------------------------------------------------ waitForCondition

DEFAULT_INTERVAL_MS == 16

DEFAULT_TIMEOUT_MS == 1000

\* The message of the error the timeout rejects with.
TimeoutError == "Timeout waiting for condition"

\* Results of conditionFn: truthy values, and one falsy value.
Truthy == {"v1", "v2"}

Falsy == {"falsy"}

\* What one invocation of conditionFn yields, returned or through its
\* promise: a value, or an error thrown or rejected with.
WaitOutcomes ==
  [kind : {"value"}, value : Truthy \cup Falsy] \cup [kind : {"error"}, value : Reasons]

NoOutcome == [kind |-> "none", value |-> NoReason]

\* A promise: not created yet, pending, or settled with a value.
Idle == [state |-> "idle", value |-> NoReason]

Pending == [state |-> "pending", value |-> NoReason]

\* resolve and reject of a promise that the last call settles.
SettleAgain(promise, state, value) == [state |-> state, value |-> value]

\* resolve(value) and reject(error) of a promise: the first one settles it,
\* later ones do nothing.
Settle(promise, state, value) ==
  IF promise.state = "pending" THEN [state |-> state, value |-> value] ELSE promise

\* The configured durations are whole milliseconds within the clock's range,
\* so neither default applies.
WaitDurations == {Ms(m) : m \in 1..(MaxTime - 1)}

intervalDuration == safeDelayMs(waitIntervalMs, DEFAULT_INTERVAL_MS)

timeoutDuration == safeDelayMs(waitTimeoutMs, DEFAULT_TIMEOUT_MS)

\* A timer of the scheduler has reached its instant.
Due(timer) == timer # Null /\ timer[1] <= clockNow

\* The call waitForCondition(conditionFn, config): the executor sets the
\* interval, then the timeout.
WaitForCondition ==
  /\ engine = "wait"
  /\ waitPromise.state = "idle"
  /\ waitPromise' = Pending
  /\ waitIntervalDue' = <<clockNow + intervalDuration>>
  /\ waitTimeoutDue' = <<clockNow + timeoutDuration>>
  /\ UNCHANGED <<engine, ctorVars, legacyVars, syncVars, asyncVars, timerVars, delayVars, clockNow,
                 waitIntervalMs, waitTimeoutMs, waitCalls, waitFlight, waitLast,
                 waitOnlyFalsy>>

\* intervalFn without the clearTimeout of the truthy branch.
WaitAfterAwaitKeepsTimeout(outcome, interval) ==
  /\ waitLast' = outcome
  /\ waitOnlyFalsy' = (waitOnlyFalsy /\ outcome.value \in Falsy)
  /\ IF outcome.kind = "value" /\ outcome.value \in Truthy
       THEN /\ waitIntervalDue' = Null
            /\ waitTimeoutDue' = waitTimeoutDue
            /\ waitPromise' = Settle(waitPromise, "fulfilled", outcome.value)
       ELSE IF outcome.kind = "error"
         THEN /\ waitIntervalDue' = Null
              /\ waitTimeoutDue' = Null
              /\ waitPromise' = Settle(waitPromise, "rejected", outcome.value)
         ELSE /\ waitIntervalDue' = interval
              /\ UNCHANGED <<waitTimeoutDue, waitPromise>>

\* intervalFn without the clearInterval of the catch branch.
WaitAfterAwaitKeepsInterval(outcome, interval) ==
  /\ waitLast' = outcome
  /\ waitOnlyFalsy' = (waitOnlyFalsy /\ outcome.value \in Falsy)
  /\ IF outcome.kind = "value" /\ outcome.value \in Truthy
       THEN /\ waitIntervalDue' = Null
            /\ waitTimeoutDue' = Null
            /\ waitPromise' = Settle(waitPromise, "fulfilled", outcome.value)
       ELSE IF outcome.kind = "error"
         THEN /\ waitIntervalDue' = interval
              /\ waitTimeoutDue' = Null
              /\ waitPromise' = Settle(waitPromise, "rejected", outcome.value)
         ELSE /\ waitIntervalDue' = interval
              /\ UNCHANGED <<waitTimeoutDue, waitPromise>>

\* intervalFn from the point where `await conditionFn()` has an outcome:
\* a truthy value cancels both timers and resolves, an error cancels both
\* timers and rejects, a falsy value does nothing.  `interval` is the
\* interval timer as the scheduler holds it at that point.
WaitAfterAwait(outcome, interval) ==
  /\ waitLast' = outcome
  /\ waitOnlyFalsy' = (waitOnlyFalsy /\ outcome.value \in Falsy)
  /\ IF outcome.kind = "value" /\ outcome.value \in Truthy
       THEN /\ waitIntervalDue' = Null
            /\ waitTimeoutDue' = Null
            /\ waitPromise' = Settle(waitPromise, "fulfilled", outcome.value)
       ELSE IF outcome.kind = "error"
         THEN /\ waitIntervalDue' = Null
              /\ waitTimeoutDue' = Null
              /\ waitPromise' = Settle(waitPromise, "rejected", outcome.value)
         ELSE /\ waitIntervalDue' = interval
              /\ UNCHANGED <<waitTimeoutDue, waitPromise>>

\* The interval fires as a timeout would: once, without being set again.
WaitIntervalFiresOnce ==
  /\ engine = "wait"
  /\ Due(waitIntervalDue)
  /\ waitCalls' = waitCalls + 1
  /\ \/ /\ waitFlight' = waitFlight + 1
        /\ waitIntervalDue' = Null
        /\ UNCHANGED <<waitTimeoutDue, waitPromise, waitLast, waitOnlyFalsy>>
     \/ /\ \E outcome \in WaitOutcomes : WaitAfterAwait(outcome, Null)
        /\ UNCHANGED waitFlight
  /\ UNCHANGED <<engine, ctorVars, legacyVars, syncVars, asyncVars, timerVars, delayVars, clockNow,
                 waitIntervalMs, waitTimeoutMs>>

\* The interval fires: the scheduler sets it again and runs intervalFn,
\* which invokes conditionFn.  Either conditionFn returns a promise that is
\* not settled yet, and intervalFn stays suspended at the await; or it
\* yields at once (a returned value, a thrown error, a settled promise) and
\* intervalFn goes on in the microtask that follows, before any other timer.
WaitIntervalFires ==
  /\ engine = "wait"
  /\ Due(waitIntervalDue)
  /\ waitCalls' = waitCalls + 1
  /\ \/ /\ waitFlight' = waitFlight + 1
        /\ waitIntervalDue' = <<clockNow + intervalDuration>>
        /\ UNCHANGED <<waitTimeoutDue, waitPromise, waitLast, waitOnlyFalsy>>
     \/ /\ \E outcome \in WaitOutcomes :
             WaitAfterAwait(outcome, <<clockNow + intervalDuration>>)
        /\ UNCHANGED waitFlight
  /\ UNCHANGED <<engine, ctorVars, legacyVars, syncVars, asyncVars, timerVars, delayVars, clockNow,
                 waitIntervalMs, waitTimeoutMs>>

\* A promise returned by conditionFn settles, at any later moment, and the
\* intervalFn suspended on it goes on.
WaitConditionSettles ==
  /\ engine = "wait"
  /\ waitFlight > 0
  /\ waitFlight' = waitFlight - 1
  /\ \E outcome \in WaitOutcomes : WaitAfterAwait(outcome, waitIntervalDue)
  /\ UNCHANGED <<engine, ctorVars, legacyVars, syncVars, asyncVars, timerVars, delayVars, clockNow,
                 waitIntervalMs, waitTimeoutMs, waitCalls>>

\* timeoutFn without the clearInterval.
WaitTimeoutFiresKeepsInterval ==
  /\ engine = "wait"
  /\ Due(waitTimeoutDue)
  /\ waitTimeoutDue' = Null
  /\ waitPromise' = Settle(waitPromise, "rejected", TimeoutError)
  /\ UNCHANGED <<engine, ctorVars, legacyVars, syncVars, asyncVars, timerVars, delayVars, clockNow,
                 waitIntervalMs, waitTimeoutMs, waitCalls, waitFlight, waitLast,
                 waitOnlyFalsy, waitIntervalDue>>

\* The timeout fires: timeoutFn cancels the interval and rejects.  When the
\* interval is due at the same instant, the host decides which fires first.
WaitTimeoutFires ==
  /\ engine = "wait"
  /\ Due(waitTimeoutDue)
  /\ waitTimeoutDue' = Null
  /\ waitIntervalDue' = Null
  /\ waitPromise' = Settle(waitPromise, "rejected", TimeoutError)
  /\ UNCHANGED <<engine, ctorVars, legacyVars, syncVars, asyncVars, timerVars, delayVars, clockNow,
                 waitIntervalMs, waitTimeoutMs, waitCalls, waitFlight, waitLast,
                 waitOnlyFalsy>>

\* Time passes.  The callbacks take no time, so a timer fires at its
\* instant: the clock does not pass a timer that is due.
WaitClock ==
  /\ engine = "wait"
  /\ waitPromise.state # "idle"
  /\ clockNow < MaxTime
  /\ ~Due(waitIntervalDue)
  /\ ~Due(waitTimeoutDue)
  /\ clockNow' = clockNow + 1
  /\ UNCHANGED <<engine, ctorVars, legacyVars, syncVars, asyncVars, timerVars, delayVars, waitVars>>

WaitInit ==
  /\ clockNow = 0
  /\ waitPromise = Idle
  /\ waitIntervalDue = Null
  /\ waitTimeoutDue = Null
  /\ waitCalls = 0
  /\ waitFlight = 0
  /\ waitLast = NoOutcome
  /\ waitOnlyFalsy = TRUE
  /\ IF engine = "wait"
       THEN /\ waitIntervalMs \in WaitDurations
            /\ waitTimeoutMs \in WaitDurations
       ELSE /\ waitIntervalMs = Value("undefined")
            /\ waitTimeoutMs = Value("undefined")

WaitNext ==
  \/ WaitForCondition
  \/ WaitIntervalFires
  \/ WaitConditionSettles
  \/ WaitTimeoutFires
  \/ WaitClock

\* ---------------------------------------------------------------- delayMs

\* The arguments of delayMs: every kind of value that is not a finite
\* number, and the finite numbers from -1 ms on in steps of a quarter.
DelayDurations ==
  {Value(k) : k \in {"undefined", "NaN", "Infinity", "-Infinity"}}
    \cup {Finite(q) : q \in (-4)..(4 * (MaxTime - 1))}

\* The call delayMs(delayMs, config): a throw of ensureSafeDelayMs in the
\* async function rejects the promise it returns; otherwise the executor
\* sets the timeout.
DelayMs ==
  /\ engine = "delay"
  /\ delayPromise.state = "idle"
  /\ LET safe == ensureSafeDelayMs(delayDuration)
     IN IF safe.threw
          THEN /\ delayPromise' = Settle(Pending, "rejected", InvalidDuration)
               /\ UNCHANGED delayTimeoutDue
          ELSE /\ delayPromise' = Pending
               /\ delayTimeoutDue' = <<clockNow + safe.value>>
  /\ UNCHANGED <<engine, ctorVars, legacyVars, syncVars, asyncVars, timerVars, waitVars, clockNow,
                 delayDuration>>

\* The timeout fires: resolve().
DelayTimeoutFires ==
  /\ engine = "delay"
  /\ Due(delayTimeoutDue)
  /\ delayTimeoutDue' = Null
  /\ delayPromise' = Settle(delayPromise, "fulfilled", NoReason)
  /\ UNCHANGED <<engine, ctorVars, legacyVars, syncVars, asyncVars, timerVars, waitVars, clockNow,
                 delayDuration>>

\* Time passes, up to the instant of the timeout.
DelayClock ==
  /\ engine = "delay"
  /\ delayPromise.state # "idle"
  /\ clockNow < MaxTime
  /\ ~Due(delayTimeoutDue)
  /\ clockNow' = clockNow + 1
  /\ UNCHANGED <<engine, ctorVars, legacyVars, syncVars, asyncVars, timerVars, waitVars, delayVars>>

DelayInit ==
  /\ delayPromise = Idle
  /\ delayTimeoutDue = Null
  /\ IF engine = "delay"
       THEN delayDuration \in DelayDurations
       ELSE delayDuration = Value("undefined")

DelayNext ==
  \/ DelayMs
  \/ DelayTimeoutFires
  \/ DelayClock

\* ---------------------------------------------------------------------
\* Timer, the earlier timer of src/unnamed/part_007
\* ---------------------------------------------------------------------

\* safeTickRateMs(ms), lines 28-34: 1000 for a negative or non-finite value,
\* else the value rounded to whole ms.
safeTickRateMs(ms) ==
  IF (ms.kind = "finite" /\ ms.q < 0) \/ ms.kind # "finite"
    THEN 1000
    ELSE MathRound(ms.q, 4)

\* The values of targetTickRateMs exercised: the intervals of TimerSync.
LegacyRates == {Ms(m) : m \in Intervals}

\* The fields of a Timer after its constructor, lines 63-71.  `globals` tells
\* whether options.globals was given: without it getGlobals(), lines 21-26,
\* binds setTimeout to globalThis.setInterval.
LegacyNew(globals, targetTickRateMs) ==
  [globals |-> globals, tickRateMs |-> safeTickRateMs(targetTickRateMs),
   isRunning |-> FALSE, runId |-> 0, startTime |-> Null]

\* The callback scheduleTick(time), lines 132-145, registers for the timer
\* `timer`, `pend` being the callbacks pending.  The host takes a negative
\* delay as 0.  With the default globals the callback is registered by
\* setInterval: it fires every `delay` ms, every ms at least, until cleared,
\* and nothing clears it.
LegacyScheduleTick(timer, time, pend) ==
  LET elapsed == time - Num(timer.startTime)
      roundedElapsed == MathRound(elapsed, timer.tickRateMs) * timer.tickRateMs
      targetNext == Num(timer.startTime) + roundedElapsed + timer.tickRateMs
      delay == targetNext - clockNow
  IN [id |-> FreshId(pend), runId |-> timer.runId, phase |-> "timeout",
      due |-> clockNow + Max(0, delay),
      every |-> IF timer.globals = "default" THEN Max(1, delay) ELSE 0]

\* start(), lines 113-121.
LegacyStart ==
  /\ engine = "legacy"
  /\ IF legacyTimer.isRunning
       THEN UNCHANGED <<legacyTimer, legacyPending>>
       ELSE /\ legacyTimer.runId < MaxRuns
            /\ Cardinality(legacyPending) < MaxTimers
            /\ legacyTimer' = [legacyTimer EXCEPT !.runId = @ + 1,
                                                  !.startTime = <<clockNow>>]
            /\ legacyPending' = legacyPending \cup
                 {LegacyScheduleTick(legacyTimer', clockNow, legacyPending)}
  /\ UNCHANGED <<engine, ctorVars, syncVars, asyncVars, timerVars, waitVars,
                 delayVars, clockNow, legacyTicks>>

\* stop(), lines 127-130.
LegacyStop ==
  /\ engine = "legacy"
  /\ legacyTimer' = [legacyTimer EXCEPT !.isRunning = FALSE, !.startTime = Null]
  /\ UNCHANGED <<engine, ctorVars, syncVars, asyncVars, timerVars, waitVars,
                 delayVars, clockNow, legacyPending, legacyTicks>>

\* setTargetTickRateMs(tickRateMs), lines 104-106.
LegacySetTargetTickRateMs ==
  /\ engine = "legacy"
  /\ \E tickRateMs \in LegacyRates :
       legacyTimer' = [legacyTimer EXCEPT !.tickRateMs = safeTickRateMs(tickRateMs)]
  /\ UNCHANGED <<engine, ctorVars, syncVars, asyncVars, timerVars, waitVars,
                 delayVars, clockNow, legacyPending, legacyTicks>>

\* A callback registered at line 140 fires and requests a frame, line 141.
\* One registered by setInterval stays, due again a period later.
LegacyTimeoutFires ==
  /\ engine = "legacy"
  /\ \E p \in legacyPending :
       /\ p.phase = "timeout"
       /\ p.due <= clockNow
       /\ LET kept == IF p.every > 0
                        THEN (legacyPending \ {p}) \cup
                               {[p EXCEPT !.due = clockNow + p.every]}
                        ELSE legacyPending \ {p}
          IN /\ Cardinality(kept) < MaxTimers
             /\ legacyPending' = kept \cup
                  {[id |-> FreshId(kept), runId |-> p.runId, phase |-> "frame",
                    due |-> clockNow, every |-> 0]}
  /\ UNCHANGED <<engine, ctorVars, syncVars, asyncVars, timerVars, waitVars,
                 delayVars, clockNow, legacyTimer, legacyTicks>>

\* A frame requested at line 141 fires: processTick(rafTime, currentRunId),
\* lines 147-154.  onTick does not call back into the timer.
LegacyFrameFires ==
  /\ engine = "legacy"
  /\ \E p \in legacyPending :
       /\ p.phase = "frame"
       /\ IF ~legacyTimer.isRunning \/ p.runId # legacyTimer.runId
            THEN /\ legacyPending' = legacyPending \ {p}
                 /\ UNCHANGED legacyTicks
            ELSE /\ legacyTicks < MaxCalls
                 /\ legacyTicks' = legacyTicks + 1
                 /\ legacyPending' = (legacyPending \ {p}) \cup
                      {LegacyScheduleTick(legacyTimer, clockNow, legacyPending \ {p})}
  /\ UNCHANGED <<engine, ctorVars, syncVars, asyncVars, timerVars, waitVars,
                 delayVars, clockNow, legacyTimer>>

\* Time passes: not beyond the instant a callback is due, and a frame
\* requested fires before the next ms.
LegacyClock ==
  /\ engine = "legacy"
  /\ clockNow < MaxTime
  /\ \A p \in legacyPending : p.phase = "timeout" /\ p.due > clockNow
  /\ clockNow' = clockNow + 1
  /\ UNCHANGED <<engine, ctorVars, syncVars, asyncVars, timerVars, waitVars,
                 delayVars, legacyVars>>

LegacyInit ==
  /\ legacyPending = {}
  /\ legacyTicks = 0
  /\ IF engine = "legacy"
       THEN \E globals \in {"given", "default"} : \E rate \in LegacyRates :
              legacyTimer = LegacyNew(globals, rate)
       ELSE legacyTimer = LegacyNew("given", Ms(2))

LegacyNext ==
  \/ LegacyStart
  \/ LegacyStop
  \/ LegacySetTargetTickRateMs
  \/ LegacyTimeoutFires
  \/ LegacyFrameFires
  \/ LegacyClock

\* ------------------------------------------------------- specification

Init ==
  /\ engine \in Engines
  /\ SyncInit
  /\ AsyncInit
  /\ TimerInit
  /\ WaitInit
  /\ DelayInit
  /\ CtorInit
  /\ LegacyInit

Next == SyncNext \/ AsyncNext \/ TimerNext

\* Any one of the three engines.
Spec == Init /\ [][Next]_vars

\* One engine at a time.
InitSync == engine = "sync" /\ SyncInit /\ AsyncInit /\ TimerInit
  /\ WaitInit /\ DelayInit /\ CtorInit /\ LegacyInit

SpecSync == InitSync /\ [][SyncNext]_vars

SpecSyncOutside == InitSync /\ [][SyncNextOutside]_vars

InitAsync == engine = "async" /\ SyncInit /\ AsyncInit /\ TimerInit
  /\ WaitInit /\ DelayInit /\ CtorInit /\ LegacyInit

SpecAsync == InitAsync /\ [][AsyncNext]_vars

\* The async loop with its continuations run by the microtask queue: a
\* call of loopFn or onError comes to an end, and the continuation of a
\* fulfilled await is not postponed for ever.
SpecAsyncFair ==
  /\ InitAsync
  /\ [][AsyncNext]_vars
  /\ WF_vars(AsyncLoopFnReturn \/ AsyncLoopFnThrow)
  /\ WF_vars(AsyncOnErrorReturn \/ AsyncOnErrorThrow)
  /\ WF_vars(AsyncContinueOk)

InitTimer == engine = "timer" /\ SyncInit /\ AsyncInit /\ TimerInit
  /\ WaitInit /\ DelayInit /\ CtorInit /\ LegacyInit

SpecTimer == InitTimer /\ [][TimerNext]_vars

\* The delays, one call at a time.
InitWait == engine = "wait" /\ SyncInit /\ AsyncInit /\ TimerInit
  /\ WaitInit /\ DelayInit /\ CtorInit /\ LegacyInit

SpecWait == InitWait /\ [][WaitNext]_vars

InitDelay == engine = "delay" /\ SyncInit /\ AsyncInit /\ TimerInit
  /\ WaitInit /\ DelayInit /\ CtorInit /\ LegacyInit

SpecDelay == InitDelay /\ [][DelayNext]_vars

\* The construction of a ControlledLoopSync.
InitConstructor == engine = "constructor" /\ SyncInit /\ AsyncInit /\ TimerInit
  /\ WaitInit /\ DelayInit /\ CtorInit /\ LegacyInit

SpecConstructor == InitConstructor /\ [][SyncConstructor]_vars

\* The earlier Timer alone.
InitLegacy == engine = "legacy" /\ SyncInit /\ AsyncInit /\ TimerInit
  /\ WaitInit /\ DelayInit /\ CtorInit /\ LegacyInit

SpecLegacy == InitLegacy /\ [][LegacyNext]_vars

\* ---------------------------------------------------------------- claims

\* C1: in ControlledLoopAsync at most one loopFn invocation is outstanding at
\* any time: never are the promises returned by two invocations unsettled
\* together, under every interleaving of start(), stop() and settlements.
C1_AtMostOneOutstanding ==
  Cardinality({i \in 1..Len(asyncChains) : asyncChains[i] = "await"}) <= 1

\* C2: the k-th tick of a TimerSync run started at instant s with interval T
\* is targeted at s + k*T, while every callback fired less than T/2 late,
\* onTick returned before the next boundary and the interval was not changed.
C2_TicksAtStartPlusKT ==
  (TimerIsRunning /\ timerOnTime) =>
    \A p \in timerPending :
      (p.runId = timerRunId /\ p.k >= 1) =>
        p.target = timerStartTime[1] + p.k * timerInterval

\* C3: a resumption of ControlledLoopSync that was scheduled before a stop()
\* call never starts a cycle when it fires, whatever start() and stop() calls
\* are made in between.
C3_StaleResumptionInert == ~syncStaleRan

\* C4: a tick callback of TimerSync scheduled under an earlier runId never
\* invokes onTick and never schedules a further tick, also when stop() and
\* start() were called from inside onTick.
C4_StaleTickInert == ~timerStaleActed

\* C5: in each engine, while the engine is stopped and start() is not called
\* (isRunning is false before and after the step), the count of loopFn/onTick
\* calls does not grow, whichever pending callback fires or promise settles.
C5_StoppedStaysQuiet ==
  [][ /\ (~syncRunning /\ ~syncRunning') => syncCalls' = syncCalls
      /\ (~asyncRunning /\ ~asyncRunning') => asyncCalls' = asyncCalls
      /\ (~TimerIsRunning /\ ~TimerIsRunning') => timerTicks' = timerTicks
    ]_vars

\* C5, its case in TimerSync: the timer was stopped with a callback pending,
\* and every pending callback has fired since, through requestAnimationFrame.
C5_Witness ==
  /\ engine = "timer"
  /\ ~TimerIsRunning
  /\ timerHasRaf
  /\ timerInertFired
  /\ timerTicks >= 1
  /\ timerPending = {}
  /\ timerStack = <<>>

\* C5, its case in ControlledLoopSync: stopped after a cycle yielded, and the
\* resumption has fired since.
C5_WitnessSync ==
  /\ ~syncRunning
  /\ ~syncThrown
  /\ syncInertFired
  /\ syncCalls >= 1
  /\ syncPending = 0
  /\ syncStack = <<>>

\* C5, its case in ControlledLoopAsync: stopped with an iteration in flight,
\* whose promise has fulfilled since and whose chain has ended.
C5_WitnessAsync ==
  /\ ~asyncRunning
  /\ ~asyncThrown
  /\ asyncCalls >= 1
  /\ asyncChains = <<"fulfilled">>

\* C6: a ControlledLoopSync has at most one resumption pending in the
\* scheduler at any time.
C6_AtMostOnePending == syncPending <= 1

\* C7: in ControlledLoopSync loopFn is never entered while an earlier loopFn
\* invocation, or the budget check that follows it, has not completed.
C7_Sequential ==
  \A i, j \in 1..Len(syncStack) :
    (i < j /\ syncStack[i].pc \in {"loopFn", "onError"}) =>
      syncStack[j].pc # "loopFn"

\* C8: when setTargetTickIntervalMs(newT) changes the interval of a running
\* TimerSync that has a tick pending, exactly one callback of the run is
\* pending afterwards, a timeout targeting the pending tick's interval start
\* + newT.
C8_IntervalChangeReplacesTick ==
  [][ ( /\ timerInterval' # timerInterval
        /\ TimerIsRunning
        /\ \E p \in timerPending : p.runId = timerRunId )
      => \E p \in timerPending, q \in timerPending' :
           /\ p.runId = timerRunId
           /\ {r \in timerPending' : r.runId = timerRunId} = {q}
           /\ q.phase = "timeout"
           /\ q.target = p.start + timerInterval'
    ]_vars

\* C9 as claimed: when loopFn throws in ControlledLoopSync, isRunning is false
\* inside onError and loopFn is not invoked again, also when onError calls
\* start().
C9_Original ==
  [][ /\ ~syncErrSawRunning'
      /\ syncFailed => syncCalls' = syncCalls
    ]_vars

\* C9 as amended: when loopFn throws in ControlledLoopSync, isRunning is false
\* inside onError and loopFn is not invoked again until start() is called
\* again: not in the rest of the cycle and not from any resumption.
C9_NoCallAfterThrow ==
  [][ /\ ~syncErrSawRunning'
      /\ syncThrown => syncCalls' = syncCalls
    ]_vars

\* C9, its case: loopFn threw, onError ran, the cycle ended, and the
\* resumptions left pending have fired.
C9_Witness ==
  /\ syncThrown
  /\ syncOnError
  /\ syncInertFired
  /\ syncCalls >= 1
  /\ syncPending = 0
  /\ syncStack = <<>>

\* C10: when an iteration of ControlledLoopAsync fails, isRunning is false
\* when onError is entered and stays false, and loopFn is not invoked again,
\* until start() is called again (asyncThrown is reset by the start() call
\* that takes effect, which itself makes the next invocation).
C10_StoppedAfterFailure ==
  [][ /\ ~asyncErrSawRunning'
      /\ asyncThrown' => ~asyncRunning'
      /\ (asyncThrown /\ asyncThrown') => asyncCalls' = asyncCalls
    ]_vars

\* C10, its case: an awaited promise rejected, onError ran, and the chain of
\* the start() call has ended.
C10_Witness ==
  /\ asyncThrown
  /\ asyncOnError
  /\ asyncCalls >= 1
  /\ asyncStack = <<>>
  /\ asyncChains = <<"fulfilled">>

\* C11: when onTick throws in TimerSync the timer is stopped and, until
\* start() is called again, no callback of the timer is pending in the
\* scheduler and onTick is not invoked.
C11_NothingLeftAfterThrow ==
  [][ /\ timerThrown' => (~TimerIsRunning' /\ timerPending' = {})
      /\ (timerThrown /\ timerThrown') => timerTicks' = timerTicks
    ]_vars

\* C12: in each engine every failure of the user callback makes exactly one
\* call of the configured onError (none is made without a failure, and none
\* when no onError is configured), and the argument of the call is the value
\* thrown or rejected.
C12_OnErrorOncePerFailure ==
  /\ syncErrCalls = (IF syncOnError THEN syncFailures ELSE 0)
  /\ asyncErrCalls = (IF asyncOnError THEN asyncFailures ELSE 0)
  /\ timerErrCalls = (IF timerOnError THEN timerFailures ELSE 0)
  /\ \A i \in 1..Len(syncStack) :
       syncStack[i].pc = "onError" => syncStack[i].arg = syncStack[i].reason
  /\ \A i \in 1..Len(asyncStack) :
       asyncStack[i].pc = "onError" => asyncStack[i].arg = asyncStack[i].reason
  /\ \A i \in 1..Len(timerStack) :
       timerStack[i].pc = "onError" => timerStack[i].arg = timerStack[i].reason

\* C12, its case in TimerSync: onTick has thrown "e2" and onError is executing.
C12_Witness ==
  /\ timerFailures = 1
  /\ timerErrCalls = 1
  /\ timerStack # <<>>
  /\ timerStack[1].pc = "onError"
  /\ timerStack[1].arg = "e2"

\* C12, its case in ControlledLoopSync: the second failure of loopFn, after a
\* restart, and the second call of onError.
C12_WitnessSync ==
  /\ syncFailures = 2
  /\ syncErrCalls = 2
  /\ syncStack # <<>>
  /\ SyncTop.pc = "onError"
  /\ SyncTop.arg = "e1"

\* C12, its case in ControlledLoopAsync: the promise of loopFn rejected with
\* "e2" and onError is executing.
C12_WitnessAsync ==
  /\ asyncFailures = 1
  /\ asyncErrCalls = 1
  /\ asyncStack # <<>>
  /\ AsyncTop.pc = "onError"
  /\ AsyncTop.arg = "e2"
  /\ asyncCalls = 1

\* C13: in ControlledLoopSync and TimerSync an exception thrown by onError is
\* discarded, it never leaves the engine's code; and while start() is not
\* called after the failure the engine is stopped and the user callback
\* (loopFn, onTick) is not invoked.
C13_OnErrorThrowDiscarded ==
  [][ /\ syncOutcome' # "escaped"
      /\ timerOutcome' # "escaped"
      /\ (syncOutcome' = "discarded" /\ syncThrown') => ~syncRunning'
      /\ (timerOutcome' = "discarded" /\ timerThrown') => ~TimerIsRunning'
      /\ (syncOutcome = "discarded" /\ syncThrown /\ syncThrown') =>
           syncCalls' = syncCalls
      /\ (timerOutcome = "discarded" /\ timerThrown /\ timerThrown') =>
           timerTicks' = timerTicks
    ]_vars

\* C13, its case in ControlledLoopSync: onError threw, the cycle ended and
\* every resumption left pending has fired.
C13_Witness ==
  /\ syncOutcome = "discarded"
  /\ syncThrown
  /\ ~syncRunning
  /\ syncInertFired
  /\ syncPending = 0
  /\ syncStack = <<>>

\* C13, its case in TimerSync: onError threw and the tick callback ended.
C13_WitnessTimer ==
  /\ timerOutcome = "discarded"
  /\ timerThrown
  /\ ~TimerIsRunning
  /\ timerStack = <<>>
  /\ timerPending = {}

\* C14: in ControlledLoopAsync, when onError throws, the promise returned by
\* the start() call driving the loop rejects with the value onError threw;
\* that call never invokes loopFn again, and while start() is not called
\* after the failure the loop is stopped and loopFn is not invoked.
C14_OnErrorThrowRejectsStart ==
  [][ /\ \A c \in 1..Len(asyncChains') :
           asyncThrew'[c] # NoReason =>
             (asyncChains'[c] = "rejected" /\ asyncResult'[c] = asyncThrew'[c])
      /\ \A c \in 1..Len(asyncChains) :
           asyncChains[c] = "rejected" => asyncChains'[c] = "rejected"
      /\ ((\E c \in 1..Len(asyncChains) : asyncThrew'[c] # asyncThrew[c])
            /\ asyncThrown') => ~asyncRunning'
      /\ ((\E c \in 1..Len(asyncChains) : asyncThrew[c] # NoReason)
            /\ asyncThrown /\ asyncThrown') => asyncCalls' = asyncCalls
    ]_vars

\* C14, its case: the first iteration failed, onError threw "e2", and the
\* promise of start() is rejected with "e2".
C14_Witness ==
  /\ asyncChains = <<"rejected">>
  /\ asyncThrew = <<"e2">>
  /\ asyncResult = <<"e2">>
  /\ asyncCalls = 1
  /\ asyncFailures = 1
  /\ ~asyncRunning
  /\ asyncStack = <<>>

\* C15: in a ControlledLoopAsync without onError, when the promise of loopFn
\* rejects, the promise returned by the start() call driving the loop rejects
\* with the same value.
C15_FailureSurfacesWithoutOnError ==
  [][ \A c \in 1..Len(asyncChains) :
        (~asyncOnError /\ asyncChains[c] = "err" /\ asyncChains'[c] # "err")
          => (asyncChains'[c] = "rejected" /\ asyncResult'[c] = asyncReason[c])
    ]_vars

\* The promise start() returned for chain c has settled.
AsyncSettled(c) == asyncChains[c] \in {"fulfilled", "rejected"}

\* C16 as amended: the promise returned by a start() call that found the loop
\* stopped does not settle while isRunning has stayed true since that call:
\* while the loop is running, the promise of the start() call that set it
\* running (the last chain) is unsettled.
C16_DrivingStartSettlesStopped ==
  (asyncRunning /\ asyncChains # <<>>) => ~AsyncSettled(Len(asyncChains))

\* C16 as claimed: no promise returned by any start() call is settled while
\* isRunning has stayed true since the call, the calls made on a running loop
\* included.
C16_Original ==
  /\ ~asyncNoop
  /\ (asyncRunning /\ asyncChains # <<>>) => ~AsyncSettled(Len(asyncChains))

\* C16, its case: the promise of the first start() call settled after stop(),
\* and the loop, started again, is running with the promise of the second
\* call unsettled.
C16_Witness ==
  /\ asyncRunning
  /\ asyncChains = <<"fulfilled", "await">>
  /\ asyncStack = <<>>

\* The loopFn calls of this loop all cost the same.
SyncUniformCost == Cardinality(syncCosts) = 1

\* The step in which a cycle yields: delay(loop) of line 138 adds a
\* resumption.
SyncYields == syncPending' = syncPending + 1

\* elapsed <= maxBlockingTimeMs + elapsed / iterations at the yield of a cycle
\* that has made `iterations` calls in `elapsed` ms, the division cleared.
SyncYieldWithinBudget ==
  LET iterations == SyncTop.iterations + 1
      elapsed == SyncTop.difference
  IN elapsed * iterations <= syncBudget * iterations + elapsed

\* A cycle that has made no call yet finds the loop running at line 122.
SyncCycleCallsOnce ==
  (syncStack # <<>> /\ SyncTop.pc = "while" /\ SyncTop.iterations = 0)
    => syncRunning

\* C17: with a positive maxBlockingTimeMs and a loopFn whose calls all cost
\* the same, every cycle calls loopFn at least once, and when it yields the
\* time elapsed since its start is at most maxBlockingTimeMs plus the
\* cycle's average iteration cost.
C17_YieldWithinBudgetPlusAverage ==
  [][ /\ SyncCycleCallsOnce'
      /\ (SyncYields /\ syncBudget > 0 /\ SyncUniformCost)
           => SyncYieldWithinBudget ]_vars

\* C17 as claimed: the same bound when the costs differ from call to call.
C17_Original ==
  [][ /\ SyncCycleCallsOnce'
      /\ (SyncYields /\ syncBudget > 0) => SyncYieldWithinBudget ]_vars

\* C17, its case: a loop of budget 3 ms with calls of 1 ms has yielded after
\* its first cycle of two calls.
C17_Witness ==
  /\ syncCosts = {1}
  /\ syncBudget = 3
  /\ syncRunning
  /\ syncStack = <<>>
  /\ syncPending = 1
  /\ syncCalls = 2

\* ceil(a / b) for a >= 0, b >= 1.
CeilDiv(a, b) == (a + b - 1) \div b

TimerOnTickReturns ==
  /\ timerStack # <<>>
  /\ timerStack[1].pc = "onTick"
  /\ timerStack' = <<>>
  /\ timerThrown' = timerThrown

\* C19: when onTick returns, one callback is scheduled for the next tick and
\* onTick is not called; if the next target instant has passed by then, the
\* delay of that callback is 0: it is due at once.  onTick is called once at a time, and only by
\* a scheduled callback that has come due and is consumed by the call, so the
\* calls never outnumber the callbacks that fired.  (start() opens a new run
\* and a new count.)
C19_OverrunOneTickNoCatchUp ==
  [][ /\ TimerOnTickReturns =>
           /\ timerTicks' = timerTicks
           /\ timerPending \subseteq timerPending'
           /\ Cardinality(timerPending' \ timerPending) = 1
           /\ \A p \in timerPending' \ timerPending :
                /\ p.phase = "timeout"
                /\ p.k = timerStack[1].k + 1
                /\ (p.target <= now) => (p.due = now)
      /\ (timerTicks' # timerTicks /\ timerRunId' = timerRunId) =>
           /\ timerTicks' = timerTicks + 1
           /\ timerStack = <<>>
           /\ \E p \in timerPending :
                /\ p.due <= now
                /\ timerPending' = timerPending \ {p} ]_vars

\* C19, its case: with an interval of 2 ms the first onTick, called at its
\* target, has returned at the next target instant or after it, and the
\* second tick is scheduled with delay 0 and is due.
C19_Witness ==
  /\ TimerIsRunning
  /\ timerStack = <<>>
  /\ timerTicks = 1
  /\ timerOnTime = FALSE
  /\ \E p \in timerPending :
       /\ p.runId = timerRunId
       /\ p.k = 2
       /\ p.phase = "timeout"
       /\ p.target <= now
       /\ p.due = now

\* C20: stop() leaves no timeout of the timer pending in the scheduler.
C20_StopClearsTimeout ==
  [][ (TimerIsRunning /\ ~TimerIsRunning' /\ timerThrown' = timerThrown)
        => \A p \in timerPending' : p.phase # "timeout" ]_vars

\* The step in which the timeout p of the timer elapses: p leaves the
\* scheduler and no timeout is set (start() and setTargetTickIntervalMs set
\* one).
TimerTimeoutElapses(p) ==
  /\ p \in timerPending
  /\ p.phase = "timeout"
  /\ p \notin timerPending'
  /\ \A q \in timerPending' \ timerPending : q.phase # "timeout"

\* C21: a frame callback requested where the globals have no
\* requestAnimationFrame runs in a later task, not inside the call that
\* requested it: a resumption of ControlledLoopSync is pending after delay()
\* and no cycle has started from it, and a timeout of TimerSync that elapses
\* leaves its frame callback pending.
C21_SubstituteRafDeferred ==
  [][ /\ SyncYields => Len(syncStack') < Len(syncStack)
      /\ \A p \in timerPending :
           (~timerHasRaf /\ TimerTimeoutElapses(p))
             => [p EXCEPT !.phase = "raf"] \in timerPending' ]_vars

\* C22: start() called on a ControlledLoopSync that is running calls loopFn
\* zero times, starts no cycle and schedules no resumption: it leaves the
\* loop as it found it.
C22_StartOnRunningIsNoop ==
  [][ (~syncNoop /\ syncNoop') =>
        /\ syncRunning /\ syncRunning'
        /\ syncCalls' = syncCalls
        /\ syncStack' = syncStack
        /\ syncPending' = syncPending ]_vars

\* C22, its case: start() has been called on a running loop that had yielded
\* after its first cycle.
C22_Witness ==
  /\ syncNoop
  /\ syncRunning
  /\ syncStack = <<>>
  /\ syncPending = 1
  /\ syncCalls >= 1

\* The chains of ControlledLoopAsync that have not ended.
AsyncActive == {c \in 1..Len(asyncChains) : ~AsyncSettled(c)}

\* C23: start() called on a ControlledLoopAsync that is running returns
\* without calling loopFn and without starting a chain of iterations: the
\* chains, the active ones among them, and the callbacks executing are as
\* they were.
C23_StartOnRunningIsNoop ==
  [][ (~asyncNoop /\ asyncNoop') =>
        /\ asyncRunning /\ asyncRunning'
        /\ asyncCalls' = asyncCalls
        /\ asyncChains' = asyncChains
        /\ AsyncActive' = AsyncActive
        /\ asyncStack' = asyncStack ]_vars

\* C23, its case: start() has been called on a running loop whose one chain
\* is waiting for its loopFn promise.
C23_Witness ==
  /\ asyncNoop
  /\ asyncRunning
  /\ asyncChains = <<"await">>
  /\ asyncStack = <<>>
  /\ asyncCalls = 1

\* The timeouts set in a step.
TimerTimeoutsSet ==
  {q \in timerPending' \ Forget(timerPending) :
     q.phase = "timeout" /\ q \notin timerPending}

\* C24: nothing changes _runId or _startTime of a running TimerSync, and
\* nothing schedules a tick for it but the return of onTick and
\* setTargetTickIntervalMs, so start() on a running timer changes nothing;
\* _runId changes only when a stopped timer is started, by exactly one, and
\* with it _startTime becomes the current time and one tick is scheduled for
\* the new run.
C24_StartTransitions ==
  [][ /\ (timerRunId' # timerRunId) =>
           /\ timerRunId' = timerRunId + 1
           /\ ~TimerIsRunning
      /\ (~TimerIsRunning /\ TimerIsRunning') =>
           /\ timerRunId' = timerRunId + 1
           /\ timerStartTime' = <<now>>
           /\ Cardinality(TimerTimeoutsSet) = 1
           /\ \A q \in TimerTimeoutsSet : q.runId = timerRunId'
      /\ (TimerIsRunning /\ TimerIsRunning') =>
           /\ timerRunId' = timerRunId
           /\ timerStartTime' = timerStartTime
           /\ (TimerTimeoutsSet # {}) =>
                \/ timerTimeoutId # Null
                \/ /\ timerStack # <<>>
                   /\ timerStack[1].pc = "onTick"
                   /\ timerStack' = <<>> ]_vars

\* C24, its case: a timer that was started, stopped and started again at 2
\* is in its second run.
C24_Witness ==
  /\ timerRunId = 2
  /\ timerStartTime = <<2>>
  /\ timerTicks = 0
  /\ \E p \in timerPending : p.runId = 2 /\ p.phase = "timeout"

\* The step of a start() call that takes effect: a cycle begins from user
\* code or from outside, with no resumption consumed.
SyncStartStep ==
  /\ SyncInUserCode
  /\ syncStack' = Append(syncStack, SyncNewFrame)
  /\ syncPending' = syncPending

\* The step of a stop() call: made from user code or from outside, it
\* changes no activation, call count or resumption.
SyncStopStep ==
  /\ SyncInUserCode
  /\ syncStack' = syncStack
  /\ syncPending' = syncPending
  /\ syncCalls' = syncCalls

\* The step in which loopFn throws.
SyncThrowStep ==
  /\ syncStack # <<>>
  /\ SyncTop.pc = "loopFn"
  /\ syncFailures' = syncFailures + 1

\* C25: isRunning of ControlledLoopSync is false at construction; it becomes
\* true only by start(), and false only by stop() or by a throw of loopFn,
\* after which it is false at once; yielding, resuming and the budget do not
\* change it.
C25_IsRunningTransitions ==
  /\ ~syncRunning
  /\ [][ /\ (~syncRunning /\ syncRunning') => SyncStartStep
         /\ (syncRunning /\ ~syncRunning') => (SyncStopStep \/ SyncThrowStep)
         /\ SyncThrowStep => ~syncRunning'
         /\ (SyncYields /\ ~SyncThrowStep) => syncRunning' = syncRunning ]_vars

\* C25, its case: a loop started once is running in its second cycle, after
\* a yield and a resumption.
C25_Witness ==
  /\ syncRunning
  /\ ~syncNoop
  /\ Len(syncStack) = 1
  /\ SyncTop.pc = "loopFn"
  /\ SyncTop.iterations = 0
  /\ syncPending = 0
  /\ syncStale = 0
  /\ syncCalls = 3

\* The step in which an invocation of conditionFn yields its outcome, at
\* once or through its promise; waitLast' is the outcome.
WaitYields ==
  \/ waitFlight' = waitFlight - 1
  \/ waitCalls' = waitCalls + 1 /\ waitFlight' = waitFlight

\* The step in which an invocation of conditionFn yields a truthy value.
WaitYieldsTruthy == WaitYields /\ waitLast'.value \in Truthy

WaitYieldsError == WaitYields /\ waitLast'.kind = "error"

WaitTimedOut == waitPromise = [state |-> "rejected", value |-> TimeoutError]

\* C28: as long as every invocation of conditionFn that has finished yielded
\* a falsy value, the promise of waitForCondition is pending before timeoutMs
\* has elapsed and rejected with the timeout error after it; the rejection
\* happens at the instant timeoutMs, and from then on no timer is pending.
C28_TimeoutRejectsAtDeadline ==
  /\ [](waitOnlyFalsy =>
          /\ clockNow < timeoutDuration => waitPromise.state \in {"idle", "pending"}
          /\ clockNow > timeoutDuration => WaitTimedOut
          /\ waitPromise.state \notin {"idle", "pending"} =>
               /\ WaitTimedOut
               /\ waitIntervalDue = Null
               /\ waitTimeoutDue = Null)
  /\ [][ (waitOnlyFalsy' /\ ~WaitTimedOut /\ WaitTimedOut') =>
           /\ clockNow = timeoutDuration
           /\ clockNow' = clockNow ]_vars

\* C28, its case: conditionFn returned a falsy value at every interval and
\* the promise is rejected with the timeout error at the instant timeoutMs.
C28_Witness ==
  /\ waitOnlyFalsy
  /\ WaitTimedOut
  /\ clockNow = timeoutDuration
  /\ waitCalls >= 2
  /\ waitFlight = 0
  /\ waitLast.value \in Falsy
  /\ waitIntervalDue = Null
  /\ waitTimeoutDue = Null


\* C29: conditionFn is never invoked before an interval has elapsed for each
\* of its invocations, the first included; while the promise is pending and
\* every finished invocation yielded a falsy value, both timers are pending
\* and conditionFn has been invoked once per elapsed interval: after k
\* invocations the interval is set for the instant (k + 1) * intervalMs,
\* which has not passed.
C29_OncePerInterval ==
  /\ waitCalls * intervalDuration <= clockNow
  /\ (waitPromise.state = "pending" /\ waitOnlyFalsy) =>
       /\ waitIntervalDue = <<(waitCalls + 1) * intervalDuration>>
       /\ clockNow <= (waitCalls + 1) * intervalDuration
       /\ waitTimeoutDue = <<timeoutDuration>>

\* C29, its case: two intervals have elapsed, conditionFn has returned a
\* falsy value twice and the promise is pending.
C29_Witness ==
  /\ waitPromise.state = "pending"
  /\ waitOnlyFalsy
  /\ waitLast.value \in Falsy
  /\ waitCalls = 2
  /\ waitFlight = 0
  /\ clockNow = 2 * intervalDuration
  /\ waitIntervalDue = <<3 * intervalDuration>>
  /\ waitTimeoutDue = <<timeoutDuration>>


\* A positive finite number.
IsPositiveFinite(value) == value.kind = "finite" /\ value.q > 0

\* C30: once delayMs has been called, a duration that is not a positive
\* finite number has rejected the promise with the invalid-duration error
\* and no timeout has been set; a positive finite duration has not rejected
\* it.
C30_InvalidDurationRejected ==
  delayPromise.state # "idle" =>
    IF IsPositiveFinite(delayDuration)
      THEN delayPromise.state \in {"pending", "fulfilled"}
      ELSE /\ delayPromise = [state |-> "rejected", value |-> InvalidDuration]
           /\ delayTimeoutDue = Null


\* round(d) of the duration given to delayMs, in whole ms.
DelayRounded == MathRound(delayDuration.q, 4)

\* C31: for a positive finite duration d, once delayMs(d) has been called its
\* promise is pending, with the timeout set for round(d), at every instant
\* before round(d); it is pending exactly as long as the timeout has not
\* fired, it is never rejected, and it is fulfilled at every instant after
\* round(d).
C31_ResolvesAtRoundedDuration ==
  (IsPositiveFinite(delayDuration) /\ delayPromise.state # "idle") =>
    /\ delayPromise.state \in {"pending", "fulfilled"}
    /\ (delayPromise.state = "pending") = (delayTimeoutDue = <<DelayRounded>>)
    /\ (delayPromise.state = "fulfilled") => (delayTimeoutDue = Null)
    /\ (clockNow < DelayRounded) => (delayPromise.state = "pending")
    /\ (clockNow > DelayRounded) => (delayPromise.state = "fulfilled")

\* C31, its case: delayMs(1.5) is fulfilled at 2 ms.
C31_Witness ==
  /\ delayDuration = Finite(6)
  /\ delayPromise.state = "fulfilled"
  /\ clockNow = 2

\* C31, its other case: delayMs(2.25) is still pending at 1 ms.
C31_WitnessPending ==
  /\ delayDuration = Finite(9)
  /\ delayPromise.state = "pending"
  /\ clockNow = 1


\* C32: the maxBlockingTimeMs a constructed ControlledLoopSync holds is the
\* default 15 for a missing, negative or non-finite configured value and the
\* configured value rounded to the nearest integer otherwise, and it is
\* greater than zero.
C32_BudgetPositiveInteger ==
  ctorHeld # Null =>
    /\ ctorHeld[1] \in Nat
    /\ ctorHeld[1] > 0
    /\ IF ctorConfigured.kind # "finite" \/ ctorConfigured.q < 0
         THEN ctorHeld[1] = 15
         ELSE ctorHeld[1] = MathRound(ctorConfigured.q, 4)

\* C32 without its last part: the default or the rounded value, which can
\* be zero.
C32_DefaultOrRounded ==
  ctorHeld # Null =>
    /\ ctorHeld[1] \in Nat
    /\ IF ctorConfigured.kind # "finite" \/ ctorConfigured.q < 0
         THEN ctorHeld[1] = 15
         ELSE ctorHeld[1] = MathRound(ctorConfigured.q, 4)


\* The timer's pending callbacks that invoke onTick when they fire: those
\* of the current run, while the timer is running.
TimerLive ==
  IF TimerIsRunning THEN {p \in timerPending : p.runId = timerRunId} ELSE {}

\* C33: at any time at most one pending timeout or frame callback of a
\* TimerSync would invoke onTick when it fires.
C33_OneLiveTickChain == Cardinality(TimerLive) <= 1


\* Every loopFn call advances the clock by at least 1 ms.
SyncCallsTakeTime == 0 \notin syncCosts

\* The step in which a cycle ends: its activation leaves the stack.
SyncCycleEnds == Len(syncStack') = Len(syncStack) - 1

\* The step in which a scheduled resumption fires.
SyncResumptionFires == syncPending' = syncPending - 1

\* C34: when every loopFn call takes at least 1 ms, a cycle of
\* ControlledLoopSync makes a bounded number of calls: no cycle has more than
\* max(0, maxBlockingTimeMs - 2) calls behind it when it makes another.  A
\* cycle ends either by scheduling exactly one resumption or at the loop
\* condition of a stopped loop, scheduling none; no step schedules more than
\* one; and a resumption that fires while the loop is running starts a cycle.
C34_CyclesTerminate ==
  /\ [](SyncCallsTakeTime =>
          \A i \in 1..Len(syncStack) :
            syncStack[i].iterations <= Max(0, syncBudget - 2))
  /\ [][ SyncCallsTakeTime =>
           /\ syncPending' <= syncPending + 1
           /\ SyncCycleEnds =>
                \/ syncPending' = syncPending + 1
                \/ ~syncRunning /\ syncPending' = syncPending
           /\ (SyncResumptionFires /\ syncRunning) =>
                (syncStack = <<>> /\ syncStack' = <<SyncNewFrame>>) ]_vars

\* C34, its case: with a budget of 3 ms and calls of 1 ms, the first cycle
\* has yielded after two calls and the loop is running with one resumption
\* scheduled.
C34_Witness ==
  /\ syncBudget = 3
  /\ syncCosts = {1}
  /\ syncRunning
  /\ ~syncNoop
  /\ syncStack = <<>>
  /\ syncCalls = 2
  /\ syncPending = 1
  /\ syncStale = 0

\* C34, its other case: the resumption has fired and the second cycle is
\* at its first call.
C34_WitnessResumed ==
  /\ syncBudget = 3
  /\ syncCosts = {1}
  /\ syncRunning
  /\ Len(syncStack) = 1
  /\ SyncTop.pc = "loopFn"
  /\ SyncTop.iterations = 0
  /\ syncCalls = 3
  /\ syncPending = 0


\* The step of a stop() call on a running async loop: isRunning becomes
\* false without a failure of loopFn.
AsyncStopStep ==
  /\ asyncRunning
  /\ ~asyncRunning'
  /\ asyncFailures' = asyncFailures

\* Chain c has its awaited loopFn promise fulfilled and the loop is stopped.
AsyncStoppedAfterOk(c) ==
  /\ c <= Len(asyncChains)
  /\ asyncChains[c] = "ok"
  /\ ~asyncRunning

\* C35: stop() on a running ControlledLoopAsync settles no promise of start()
\* and leaves the iteration in flight as it is; a start() call whose awaited
\* loopFn promise has fulfilled while the loop is stopped does nothing more
\* than fulfil its promise, and it does so eventually unless start() is
\* called again first.
C35_StopLetsStartFulfil ==
  /\ [][ /\ AsyncStopStep =>
              /\ asyncChains' = asyncChains
              /\ asyncStack' = asyncStack
              /\ asyncCalls' = asyncCalls
              /\ asyncResult' = asyncResult
         /\ \A c \in 1..Len(asyncChains) :
              (AsyncStoppedAfterOk(c) /\ asyncChains'[c] # "ok") =>
                /\ asyncChains'[c] = "fulfilled"
                /\ asyncResult'[c] = NoReason
                /\ asyncCalls' = asyncCalls ]_vars
  /\ \A c \in 1..MaxChains :
       AsyncStoppedAfterOk(c) ~>
         (asyncRunning \/ (c <= Len(asyncChains) /\ asyncChains[c] = "fulfilled"))

\* C35, its case: the loop was started once and stopped while its second
\* iteration was in flight; that iteration has finished without a failure
\* and the promise of start() is fulfilled.
C35_Witness ==
  /\ ~asyncRunning
  /\ asyncChains = <<"fulfilled">>
  /\ asyncResult = <<NoReason>>
  /\ asyncCalls = 2
  /\ asyncFailures = 0
  /\ asyncStack = <<>>


TimerFreshTarget(startTime, tickIntervalMs) ==
  MathRound(startTime, tickIntervalMs) * tickIntervalMs + tickIntervalMs

\* C37: a run's first target depends on the start instant and the interval
\* only: whenever start() takes effect, the tick it schedules has the target
\* that a newly constructed timer with the same interval, started at the
\* same instant, gives its first tick.
C37_ScheduleIgnoresHistory ==
  [][ (timerRunId' = timerRunId + 1) =>
        \A p \in timerPending' :
          (p.runId = timerRunId') =>
            p.target = TimerFreshTarget(now, timerInterval) ]_vars


\* The promise of waitForCondition is settled.
WaitSettled == waitPromise.state \in {"fulfilled", "rejected"}

\* The step in which the timeout fires.
WaitTimeoutElapses ==
  /\ Due(waitTimeoutDue)
  /\ waitTimeoutDue' = Null
  /\ ~WaitYields

\* C38: the promise of waitForCondition is settled by the first deciding
\* event, a truthy result, a failure of conditionFn or the timeout, with the
\* outcome of that event; once settled it never changes, conditionFn is not
\* invoked again and no timer is pending, whatever the invocations still in
\* flight yield.
C38_SettlesOnceWithFirstOutcome ==
  /\ [](WaitSettled => (waitIntervalDue = Null /\ waitTimeoutDue = Null))
  /\ [][ /\ WaitSettled => (waitPromise' = waitPromise /\ waitCalls' = waitCalls)
         /\ (waitPromise.state = "pending" /\ WaitYieldsTruthy) =>
              waitPromise' = [state |-> "fulfilled", value |-> waitLast'.value]
         /\ (waitPromise.state = "pending" /\ WaitYieldsError) =>
              waitPromise' = [state |-> "rejected", value |-> waitLast'.value]
         /\ (waitPromise.state = "pending" /\ WaitTimeoutElapses) =>
              waitPromise' = [state |-> "rejected", value |-> TimeoutError]
         /\ (waitPromise.state = "pending" /\ waitPromise'.state # "pending") =>
              (WaitYieldsTruthy \/ WaitYieldsError \/ WaitTimeoutElapses) ]_vars

\* C38, its case: the second invocation settled the promise with "v1", and
\* the first one, in flight until then, failed with "e1" afterwards.
C38_Witness ==
  /\ waitPromise = [state |-> "fulfilled", value |-> "v1"]
  /\ waitLast = [kind |-> "error", value |-> "e1"]
  /\ waitCalls = 2
  /\ waitFlight = 0
  /\ waitIntervalDue = Null
  /\ waitTimeoutDue = Null


\* C39: waitForCondition has at most one invocation of conditionFn
\* outstanding at any time.
C39_OneInvocationOutstanding == waitFlight <= 1


\* C40: after start() the Timer reports isRunning = true and a non-null
\* startTime, and a start() on a Timer already started schedules no tick;
\* when the timeout and the frame of the current run of a started Timer have
\* fired, onTick is invoked; after stop() isRunning is false and startTime
\* is null.
C40_StartTicksStopResets ==
  [][ /\ LegacyStart =>
           /\ legacyTimer'.isRunning
           /\ legacyTimer'.startTime # Null
           /\ (legacyTimer.startTime # Null) => (legacyPending' = legacyPending)
      /\ \A p \in legacyPending :
           (/\ p.phase = "frame"
            /\ p \notin legacyPending'
            /\ p.runId = legacyTimer.runId
            /\ legacyTimer.startTime # Null)
             => legacyTicks' = legacyTicks + 1
      /\ LegacyStop =>
           (~legacyTimer'.isRunning /\ legacyTimer'.startTime = Null)
    ]_vars

====
